---- MODULE Spec2Model ----
(***************************************************************************)
(* Momentum (RSR) ranking over a wide matrix of daily closing prices:      *)
(* trading-calendar projection, carry-backward price resolution, the       *)
(* weighted composite score, and the ranking run of rsr_old.py,            *)
(* RSRだけ.py and rsr_prot_pre.py; the buy-and-compare simulations of       *)
(* simulation.py, simulation_10万円ずつ.py, simulation_一株づつ.py and        *)
(* simulation_onebuy_in_v3.py; the benchmark return and the pipeline of    *)
(* simulation_v3.py; the rolling score series of rsr_daily_1y.py.          *)
(*                                                                         *)
(* Dates are day counts since 1970-01-01 (pd.Timestamp normalised to a     *)
(* day).  The floats of a score are modelled as exact rationals            *)
(* <<num, den>> with den > 0 in lowest terms, the floats of the simulation *)
(* scripts as IEEE 754 doubles.  Optional values are <<>> (None / NaN) or  *)
(* <<v>>.                                                                  *)
(***************************************************************************)
EXTENDS Integers, Sequences, FiniteSets, TLC

VARIABLES script, cal, df, sim_date, top_n,
          pc, base_day, sess, i, results, skipped, out, err,
          input_codes, buy_date, sell_date, mode, sort_by, ok_rows, ng_rows, totals,
          probe

\* the state of a simulation run besides script, df, pc, i and err
simVars == <<input_codes, buy_date, sell_date, mode, sort_by, ok_rows, ng_rows, totals>>

runVars == <<script, cal, df, sim_date, top_n,
             pc, base_day, sess, i, results, skipped, out, err, simVars>>
vars == <<script, cal, df, sim_date, top_n,
          pc, base_day, sess, i, results, skipped, out, err, simVars, probe>>

----------------------------------------------------------------------------
(* Bounds of the model *)

MaxRows == 3

----------------------------------------------------------------------------
(* Optional values *)

None == <<>>
Some(v) == <<v>>
IsNone(o) == o = <<>>
Val(o) == o[1]

----------------------------------------------------------------------------
(* Calendar dates: datetime.date / pd.Timestamp and dateutil.relativedelta *)

\* days of the civil date d / (mp + 3) / yy, the year counted from March
DaysFromShifted(yy, mp, d) ==
    yy * 365 + yy \div 4 - yy \div 100 + yy \div 400
      + (153 * mp + 2) \div 5 + d - 1 - 719468

DaysFromCivil(y, m, d) ==
    DaysFromShifted(IF m <= 2 THEN y - 1 ELSE y, IF m > 2 THEN m - 3 ELSE m + 9, d)

IsLeap(y) == (y % 4 = 0 /\ y % 100 # 0) \/ y % 400 = 0

DaysInMonth(y, m) ==
    IF m = 2 THEN (IF IsLeap(y) THEN 29 ELSE 28)
    ELSE IF m \in {4, 6, 9, 11} THEN 30 ELSE 31

Min2(a, b) == IF a <= b THEN a ELSE b

\* the year of day z (z >= 0): the year whose January 1st is the last one <= z
YearOf(z) ==
    CHOOSE y \in (1970 + z \div 366)..(1970 + z \div 365) :
        DaysFromCivil(y, 1, 1) <= z /\ z < DaysFromCivil(y + 1, 1, 1)

MonthOf(z, y) ==
    CHOOSE m \in 1..12 :
        DaysFromCivil(y, m, 1) <= z /\ z < DaysFromCivil(y, m, 1) + DaysInMonth(y, m)

CivilInMonth(z, y, m) == [y |-> y, m |-> m, d |-> z - DaysFromCivil(y, m, 1) + 1]

CivilInYear(z, y) == CivilInMonth(z, y, MonthOf(z, y))

CivilFromDays(z) == CivilInYear(z, YearOf(z))

\* day d of month m of year y, the day clipped to the length of the month
ClippedDate(y, m, d) == DaysFromCivil(y, m, Min2(d, DaysInMonth(y, m)))

\* the date total months after year 0 (month 1 = January of year 0)
DateOfMonthCount(total, d) == ClippedDate(total \div 12, (total % 12) + 1, d)

AddMonthsCivil(c, n) == DateOfMonthCount(c.y * 12 + (c.m - 1) + n, c.d)

\* day + relativedelta(months=n), n may be negative: the month is shifted and
\* the day of month is clipped to the length of the target month
AddMonths(day, n) == AddMonthsCivil(CivilFromDays(day), n)

SubYearsCivil(c, n) == ClippedDate(c.y - n, c.m, c.d)

\* day - relativedelta(years=n)
SubYears(day, n) == SubYearsCivil(CivilFromDays(day), n)

\* 0 = Monday ... 6 = Sunday
Weekday(day) == (day + 3) % 7

----------------------------------------------------------------------------
(* Exact rational arithmetic standing for Python float arithmetic *)

Abs(x) == IF x < 0 THEN -x ELSE x

RECURSIVE GCD(_, _)
GCD(a, b) == IF b = 0 THEN a ELSE GCD(b, a % b)

\* a zero denominator (the division Python refuses with ZeroDivisionError) is
\* kept as <<n, 0>> so that it stays visible in a result
Rat(n, d) ==
    LET g0 == GCD(Abs(n), Abs(d))
        g  == IF g0 = 0 THEN 1 ELSE g0
        s  == IF d < 0 THEN -1 ELSE 1
    IN  <<(s * n) \div g, (s * d) \div g>>

IsFinite(r) == r[2] > 0

RatInt(n) == <<n, 1>>
RatAdd(a, b) == Rat(a[1] * b[2] + b[1] * a[2], a[2] * b[2])
RatSub(a, b) == Rat(a[1] * b[2] - b[1] * a[2], a[2] * b[2])
RatMul(a, b) == Rat(a[1] * b[1], a[2] * b[2])
RatDiv(a, b) == Rat(a[1] * b[2], a[2] * b[1])
RatLess(a, b) == a[1] * b[2] < b[1] * a[2]
RatLeq(a, b) == a[1] * b[2] <= b[1] * a[2]

----------------------------------------------------------------------------
(* Python float arithmetic of the simulation scripts: IEEE 754 binary64,   *)
(* round to nearest, ties to even.  A finite float is s * m * 2^e with     *)
(* sign s in {-1, 0, 1} and m an odd natural of at most DBL_MANT_DIG bits, *)
(* held as a sequence of limbs, least significant first; zero is m = <<>>. *)
(* The values of the model stay far from the exponent limits.              *)

DBL_MANT_DIG == 53

LimbBits == 15
LimbBase == 2 ^ LimbBits

\* the value bound by a single assignment: the one member of a singleton
TheOnly(S) == CHOOSE x \in S : TRUE

RECURSIVE BigFromNat(_)
BigFromNat(n) == IF n = 0 THEN <<>> ELSE <<n % LimbBase>> \o BigFromNat(n \div LimbBase)

\* the quotient limb t placed below the higher limbs hi, without a leading zero
BigCons(t, hi) == IF t = 0 /\ hi = <<>> THEN <<>> ELSE <<t>> \o hi

\* a * m + carry for 0 <= m < LimbBase
RECURSIVE BigMulSmall(_, _, _)
BigMulSmall(a, m, carry) ==
    IF a = <<>> THEN BigFromNat(carry)
    ELSE BigCons((Head(a) * m + carry) % LimbBase,
                 BigMulSmall(Tail(a), m, (Head(a) * m + carry) \div LimbBase))

\* the remainder of a divided by d, 0 < d < LimbBase
RECURSIVE BigModSmall(_, _)
BigModSmall(a, d) ==
    IF a = <<>> THEN 0
    ELSE (BigModSmall(Tail(a), d) * LimbBase + Head(a)) % d

\* the quotient of a divided by d, 0 < d < LimbBase
RECURSIVE BigDivSmall(_, _)
BigDivSmall(a, d) ==
    IF a = <<>> THEN <<>>
    ELSE BigCons((BigModSmall(Tail(a), d) * LimbBase + Head(a)) \div d,
                 BigDivSmall(Tail(a), d))

RECURSIVE BigAdd(_, _, _)
BigAdd(a, b, carry) ==
    IF a = <<>> /\ b = <<>> THEN BigFromNat(carry)
    ELSE IF a = <<>> THEN BigAdd(<<0>>, b, carry)
    ELSE IF b = <<>> THEN BigAdd(a, <<0>>, carry)
    ELSE BigCons((Head(a) + Head(b) + carry) % LimbBase,
                 BigAdd(Tail(a), Tail(b), (Head(a) + Head(b) + carry) \div LimbBase))

\* a - b - borrow for a >= b + borrow
RECURSIVE BigSub(_, _, _)
BigSub(a, b, borrow) ==
    IF a = <<>> THEN <<>>
    ELSE IF b = <<>> THEN BigSub(a, <<0>>, borrow)
    ELSE BigCons((Head(a) - Head(b) - borrow) % LimbBase,
                 BigSub(Tail(a), Tail(b),
                        IF Head(a) - Head(b) - borrow < 0 THEN 1 ELSE 0))

\* -1, 0, 1 as limbs k..1 of a are below, equal to, above those of b
RECURSIVE BigCmpFrom(_, _, _)
BigCmpFrom(a, b, k) ==
    IF k = 0 THEN 0
    ELSE IF a[k] < b[k] THEN -1
    ELSE IF a[k] > b[k] THEN 1
    ELSE BigCmpFrom(a, b, k - 1)

BigCmp(a, b) ==
    IF Len(a) < Len(b) THEN -1
    ELSE IF Len(a) > Len(b) THEN 1
    ELSE BigCmpFrom(a, b, Len(a))

RECURSIVE BitLen(_)
BitLen(n) == IF n = 0 THEN 0 ELSE 1 + BitLen(n \div 2)

BigBitLen(a) ==
    IF a = <<>> THEN 0 ELSE LimbBits * (Len(a) - 1) + BitLen(a[Len(a)])

\* a * 2^s
BigShl(a, s) ==
    IF a = <<>> THEN <<>>
    ELSE [k \in 1..(s \div LimbBits) |-> 0] \o BigMulSmall(a, 2 ^ (s % LimbBits), 0)

\* floor(a / 2^s)
BigShr(a, s) ==
    BigDivSmall(SubSeq(a, (s \div LimbBits) + 1, Len(a)), 2 ^ (s % LimbBits))

BigIsOdd(a) == a # <<>> /\ a[1] % 2 = 1

\* the number of low zero bits of n > 0
RECURSIVE LowZeros(_)
LowZeros(n) == IF n % 2 = 1 THEN 0 ELSE 1 + LowZeros(n \div 2)

FZero == [k |-> "num", s |-> 0, m |-> <<>>, e |-> 0]

\* float("nan")
FNaN == [k |-> "nan", s |-> 0, m |-> <<>>, e |-> 0]

\* the float s * m * 2^e, m # <<>> with a nonzero lowest limb, in the form with m odd
FOddLimb(s, m, e) ==
    [k |-> "num", s |-> s, m |-> BigShr(m, LowZeros(m[1])), e |-> e + LowZeros(m[1])]

\* the float s * m * 2^e, m exact, in the form with m odd
RECURSIVE FCanon(_, _, _)
FCanon(s, m, e) ==
    IF m = <<>> \/ s = 0 THEN FZero
    ELSE IF m[1] = 0 THEN FCanon(s, Tail(m), e + LimbBits)
    ELSE FOddLimb(s, m, e)

\* q or q + 1: q is m without its sh low bits, and the bits left out decide
FRoundUp(m, sh, q) ==
    IF \/ BigCmp(BigSub(m, BigShl(q, sh), 0), BigShl(<<1>>, sh - 1)) > 0
       \/ /\ BigCmp(BigSub(m, BigShl(q, sh), 0), BigShl(<<1>>, sh - 1)) = 0
          /\ BigIsOdd(q)
    THEN BigAdd(q, <<1>>, 0)
    ELSE q

\* s * m * 2^e rounded to the nearest float, ties to even
FRound(s, m, e) ==
    IF BigBitLen(m) <= DBL_MANT_DIG THEN FCanon(s, m, e)
    ELSE FCanon(s,
                FRoundUp(m, BigBitLen(m) - DBL_MANT_DIG,
                         BigShr(m, BigBitLen(m) - DBL_MANT_DIG)),
                e + BigBitLen(m) - DBL_MANT_DIG)

\* float(n) for an integer n below 2^31
FInt(n) == FCanon(IF n < 0 THEN -1 ELSE IF n = 0 THEN 0 ELSE 1, BigFromNat(Abs(n)), 0)

FIsNaN(x) == x.k = "nan"
FIsZero(x) == x.k = "num" /\ x.s = 0

\* -x
FNeg(x) == [x EXCEPT !.s = -x.s]

\* the sum of the magnitudes of a and b at the common exponent e
FMagAdd(s, a, b, e) ==
    FRound(s, BigAdd(BigShl(a.m, a.e - e), BigShl(b.m, b.e - e), 0), e)

\* the difference of the magnitudes of a and b at the common exponent e, with
\* the sign sa of a when a is the larger
FMagSub(sa, am, bm, e) ==
    IF BigCmp(am, bm) = 0 THEN FZero
    ELSE IF BigCmp(am, bm) > 0 THEN FRound(sa, BigSub(am, bm, 0), e)
    ELSE FRound(-sa, BigSub(bm, am, 0), e)

\* a + b
FAdd(a, b) ==
    IF FIsNaN(a) \/ FIsNaN(b) THEN FNaN
    ELSE IF a.s = 0 THEN b
    ELSE IF b.s = 0 THEN a
    ELSE IF a.s = b.s THEN FMagAdd(a.s, a, b, Min2(a.e, b.e))
    ELSE FMagSub(a.s, BigShl(a.m, a.e - Min2(a.e, b.e)),
                 BigShl(b.m, b.e - Min2(a.e, b.e)), Min2(a.e, b.e))

\* a - b
FSub(a, b) == FAdd(a, FNeg(b))

\* a * b, limb by limb of b
RECURSIVE BigMul(_, _)
BigMul(a, b) ==
    IF a = <<>> \/ b = <<>> THEN <<>>
    ELSE BigAdd(BigMulSmall(a, Head(b), 0), BigCons(0, BigMul(a, Tail(b))), 0)

\* the largest limb q + (bits below 2^(k+1)) whose product with b is at most cur
RECURSIVE QuotLimb(_, _, _, _)
QuotLimb(cur, b, k, q) ==
    IF k < 0 THEN q
    ELSE IF BigCmp(BigMulSmall(b, q + 2 ^ k, 0), cur) <= 0
    THEN QuotLimb(cur, b, k - 1, q + 2 ^ k)
    ELSE QuotLimb(cur, b, k - 1, q)

\* the quotient limb ql of cur by b placed below the higher quotient limbs hq
DivLimb(hq, cur, b, ql) ==
    [q |-> BigCons(ql, hq), r |-> BigSub(cur, BigMulSmall(b, ql, 0), 0)]

\* the quotient limb of the remainder so far, cur, by b
DivCur(hq, cur, b) ==
    TheOnly({DivLimb(hq, cur, b, ql) : ql \in {QuotLimb(cur, b, LimbBits - 1, 0)}})

\* one step of the long division: the limb low joins the remainder so far
DivStep(hi, low, b) ==
    TheOnly({DivCur(hi.q, cur, b) : cur \in {BigCons(low, hi.r)}})

\* quotient q and remainder r of a by b # <<>>, a limb at a time from the top
RECURSIVE BigLongDiv(_, _)
BigLongDiv(a, b) ==
    IF a = <<>> THEN [q |-> <<>>, r |-> <<>>]
    ELSE TheOnly({DivStep(hi, Head(a), b) : hi \in {BigLongDiv(Tail(a), b)}})

BigDivMod(a, b) ==
    IF Len(b) = 1
    THEN [q |-> BigDivSmall(a, b[1]), r |-> BigFromNat(BigModSmall(a, b[1]))]
    ELSE BigLongDiv(a, b)

\* a * b
FMul(a, b) ==
    IF FIsNaN(a) \/ FIsNaN(b) THEN FNaN
    ELSE IF a.s = 0 \/ b.s = 0 THEN FZero
    ELSE FRound(a.s * b.s, BigMul(a.m, b.m), a.e + b.e)

\* the quotient with one more low bit that is set when the division leaves a
\* remainder
FQuotSticky(qr) ==
    BigAdd(BigShl(qr.q, 1), IF qr.r = <<>> THEN <<>> ELSE <<1>>, 0)

\* the shift that gives the quotient by bm at least DBL_MANT_DIG + 2 bits
FDivShift(bm) == DBL_MANT_DIG + 2 + BigBitLen(bm)

\* a / b for b # 0
FDiv(a, b) ==
    IF FIsNaN(a) \/ FIsNaN(b) THEN FNaN
    ELSE IF a.s = 0 THEN FZero
    ELSE FRound(a.s * b.s,
                FQuotSticky(BigDivMod(BigShl(a.m, FDivShift(b.m)), b.m)),
                a.e - b.e - FDivShift(b.m) - 1)

\* a < b
FLess(a, b) ==
    /\ ~FIsNaN(a)
    /\ ~FIsNaN(b)
    /\ FSub(a, b).s < 0

\* a <= b
FLeq(a, b) ==
    /\ ~FIsNaN(a)
    /\ ~FIsNaN(b)
    /\ FSub(a, b).s <= 0

\* math.floor(x) as a float, for x >= 0
FFloor(x) == IF x.e >= 0 THEN x ELSE FCanon(x.s, BigShr(x.m, -x.e), 0)

\* math.fmod(a, b) for a >= 0 and b > 0, at the common exponent e: exact
FModAt(a, b, e) ==
    FCanon(1, BigDivMod(BigShl(a.m, a.e - e), BigShl(b.m, b.e - e)).r, e)

FMod(a, b) == IF a.s = 0 THEN FZero ELSE FModAt(a, b, Min2(a.e, b.e))

\* floor(div), one more when div - floor(div) > 0.5
FFloorAdjusted(div, floordiv) ==
    IF FLess(FDiv(FInt(1), FInt(2)), FSub(div, floordiv))
    THEN FAdd(floordiv, FInt(1))
    ELSE floordiv

\* a // b for a >= 0 and b > 0, as float_floor_div computes it, one
\* assignment after the other:
\* mod = fmod(a, b); div = (a - mod) / b; floordiv = floor(div) adjusted
FFloorDiv(a, b) ==
    TheOnly({FFloorAdjusted(div, FFloor(div)) :
                 div \in {FDiv(FSub(a, mod), b) : mod \in {FMod(a, b)}}})

RECURSIVE BigToNat(_)
BigToNat(a) == IF a = <<>> THEN 0 ELSE Head(a) + LimbBase * BigToNat(Tail(a))

\* int(x) for a float with an integer value below 2^31
FToInt(x) == IF x.s = 0 THEN 0 ELSE x.s * BigToNat(x.m) * (2 ^ x.e)

----------------------------------------------------------------------------
(* Trading calendar (exchange_calendars): the sessions are the weekdays    *)
(* between the calendar's first and last day that are not exchange         *)
(* holidays                                                                *)

IsSession(c, day) ==
    /\ c.first <= day
    /\ day <= c.last
    /\ Weekday(day) < 5
    /\ day \notin c.holidays

\* cal.sessions_in_range(start, end): the sessions in [start, end], ascending
sessions_in_range(c, start, end) ==
    IF end < start THEN <<>>
    ELSE SelectSeq([k \in 1..(end - start + 1) |-> start + k - 1],
                   LAMBDA day : IsSession(c, day))

LOOKBACK_DAYS == 40

\* rsr_old.py / RSRだけ.py
prev_or_same_session(c, ymd) ==
    LET sessions == sessions_in_range(c, ymd - LOOKBACK_DAYS, ymd)
    IN  IF Len(sessions) = 0
        THEN [err |-> "ValueError:no_session", s |-> 0]
        ELSE [err |-> "none", s |-> sessions[Len(sessions)]]

\* rsr_prot_pre.py: no emptiness test, sessions[-1] of an empty index raises
pre_prev_or_same_session(c, ymd) ==
    LET sessions == sessions_in_range(c, ymd - LOOKBACK_DAYS, ymd)
    IN  IF Len(sessions) = 0
        THEN [err |-> "IndexError", s |-> 0]
        ELSE [err |-> "none", s |-> sessions[Len(sessions)]]

----------------------------------------------------------------------------
(* Price series.  A row is a sequence of cells [d |-> date, v |-> optional  *)
(* price] in column order; columns are sorted ascending by load_close_wide *)

dropna(row) == SelectSeq(row, LAMBDA e : ~IsNone(e.v))

\* positions of the entries of closes dated key: key in closes.index
IndexEq(closes, key) ==
    SelectSeq([k \in 1..Len(closes) |-> k], LAMBDA k : closes[k].d = key)

\* positions of the entries of closes dated at or before key
IndexLeq(closes, key) ==
    SelectSeq([k \in 1..Len(closes) |-> k], LAMBDA k : closes[k].d <= key)

\* pick_close_on_or_before taking the first entry at or before the key
pick_close_on_or_before_first(closes, session_day) ==
    IF Len(closes) = 0 THEN None
    ELSE LET key   == session_day
             exact == IndexEq(closes, key)
             idx   == IndexLeq(closes, key)
         IN  IF Len(exact) > 0 THEN closes[exact[1]].v
             ELSE IF Len(idx) = 0 THEN None
             ELSE closes[idx[1]].v

\* rsr_old.py / RSRだけ.py; closes has no NaN
pick_close_on_or_before(closes, session_day) ==
    IF Len(closes) = 0 THEN None
    ELSE LET key   == session_day
             exact == IndexEq(closes, key)
             idx   == IndexLeq(closes, key)
         IN  IF Len(exact) > 0 THEN closes[exact[1]].v
             ELSE IF Len(idx) = 0 THEN None
             ELSE closes[idx[Len(idx)]].v

\* rsr_prot_pre.py / rsr_daily_1y.py
pre_pick_close_on_or_before(closes, day) ==
    LET key   == day
        exact == IndexEq(closes, key)
        idx   == IndexLeq(closes, key)
    IN  IF Len(exact) > 0 THEN closes[exact[1]].v
        ELSE IF Len(idx) > 0 THEN closes[idx[Len(idx)]].v ELSE None

\* simulation.py: returns (value, date), here [v |-> , d |-> ]
last_value_on_or_before(row, target) ==
    LET s  == dropna(row)
        s2 == SelectSeq(s, LAMBDA e : e.d <= target)
    IN  IF Len(s) = 0 THEN [v |-> None, d |-> None]
        ELSE IF Len(s2) = 0 THEN [v |-> None, d |-> None]
        ELSE [v |-> s2[Len(s2)].v, d |-> Some(s2[Len(s2)].d)]

----------------------------------------------------------------------------
(* The composite score *)

\* the weights with q1 and q2 exchanged
WEIGHTS_swapped == [q1 |-> <<1, 5>>, q2 |-> <<2, 5>>, q3 |-> <<1, 5>>, y1 |-> <<1, 5>>]

WEIGHTS == [q1 |-> <<2, 5>>, q2 |-> <<1, 5>>, q3 |-> <<1, 5>>, y1 |-> <<1, 5>>]

\* ((p0 - p) / p) * w
Term(p0, p, w) ==
    RatMul(RatDiv(RatSub(RatInt(Val(p0)), RatInt(Val(p))), RatInt(Val(p))), w)

Composite(p0, p1y, pq1, pq2, pq3) ==
    RatMul(RatAdd(RatAdd(RatAdd(Term(p0, pq1, WEIGHTS.q1),
                                Term(p0, pq2, WEIGHTS.q2)),
                         Term(p0, pq3, WEIGHTS.q3)),
                  Term(p0, p1y, WEIGHTS.y1)),
           RatInt(100))

\* safe_detect_number whose zero test forgets the one-year price
safe_detect_number_no_y1(p0, p1y, pq1, pq2, pq3) ==
    IF \E v \in {p0, p1y, pq1, pq2, pq3} : IsNone(v) THEN None
    ELSE IF \E v \in {pq1, pq2, pq3} : Val(v) = 0 THEN None
    ELSE Some(Composite(p0, p1y, pq1, pq2, pq3))

\* rsr_old.py / RSRだけ.py
safe_detect_number(p0, p1y, pq1, pq2, pq3) ==
    IF \E v \in {p0, p1y, pq1, pq2, pq3} : IsNone(v) THEN None
    ELSE IF \E v \in {p1y, pq1, pq2, pq3} : Val(v) = 0 THEN None
    ELSE Some(Composite(p0, p1y, pq1, pq2, pq3))

\* rsr_prot_pre.py: any(v in (None, 0) for v in vals), p0 included
pre_safe_detect_number(p0, p1y, pq1, pq2, pq3) ==
    IF \E v \in {p0, p1y, pq1, pq2, pq3} : IsNone(v) \/ Val(v) = 0 THEN None
    ELSE Some(Composite(p0, p1y, pq1, pq2, pq3))

\* rsr_daily_1y.py: prices are resolved at the calendar dates themselves
rsr_at_day(closes, s0) ==
    LET p0  == pre_pick_close_on_or_before(closes, s0)
        p1y == pre_pick_close_on_or_before(closes, SubYears(s0, 1))
        pq1 == pre_pick_close_on_or_before(closes, AddMonths(s0, -3))
        pq2 == pre_pick_close_on_or_before(closes, AddMonths(s0, -6))
        pq3 == pre_pick_close_on_or_before(closes, AddMonths(s0, -9))
    IN  IF \E v \in {p0, p1y, pq1, pq2, pq3} : IsNone(v) \/ Val(v) = 0
        THEN None
        ELSE Some(Composite(p0, p1y, pq1, pq2, pq3))

----------------------------------------------------------------------------
(* Reference sessions and per-instrument scoring of a ranking run *)

\* ranking_anchors with the 3-month and the 9-month targets exchanged
ranking_anchors_swapped(c, base) ==
    LET target_1y == SubYears(base, 1)
        target_q1 == AddMonths(base, -9)
        target_q2 == AddMonths(base, -6)
        target_q3 == AddMonths(base, -3)
        r0  == prev_or_same_session(c, base)
        r1y == prev_or_same_session(c, target_1y)
        rq1 == prev_or_same_session(c, target_q1)
        rq2 == prev_or_same_session(c, target_q2)
        rq3 == prev_or_same_session(c, target_q3)
        bad == SelectSeq(<<r0, r1y, rq1, rq2, rq3>>, LAMBDA r : r.err # "none")
    IN  [err |-> IF Len(bad) = 0 THEN "none" ELSE bad[1].err,
         s0 |-> r0.s, s1y |-> r1y.s, sq1 |-> rq1.s, sq2 |-> rq2.s,
         sq3 |-> rq3.s, s_future |-> 0]

\* rsr_old.py / RSRだけ.py: calendar targets, then projection onto sessions;
\* the first projection that fails raises
ranking_anchors(c, base) ==
    LET target_1y == SubYears(base, 1)
        target_q1 == AddMonths(base, -3)
        target_q2 == AddMonths(base, -6)
        target_q3 == AddMonths(base, -9)
        r0  == prev_or_same_session(c, base)
        r1y == prev_or_same_session(c, target_1y)
        rq1 == prev_or_same_session(c, target_q1)
        rq2 == prev_or_same_session(c, target_q2)
        rq3 == prev_or_same_session(c, target_q3)
        bad == SelectSeq(<<r0, r1y, rq1, rq2, rq3>>, LAMBDA r : r.err # "none")
    IN  [err |-> IF Len(bad) = 0 THEN "none" ELSE bad[1].err,
         s0 |-> r0.s, s1y |-> r1y.s, sq1 |-> rq1.s, sq2 |-> rq2.s,
         sq3 |-> rq3.s, s_future |-> 0]

\* rsr_old.py / RSRだけ.py, loop body after the empty-row test
score_ticker(closes, ss) ==
    LET p0  == pick_close_on_or_before(closes, ss.s0)
        p1y == pick_close_on_or_before(closes, ss.s1y)
        pq1 == pick_close_on_or_before(closes, ss.sq1)
        pq2 == pick_close_on_or_before(closes, ss.sq2)
        pq3 == pick_close_on_or_before(closes, ss.sq3)
    IN  [p |-> <<p0, p1y, pq1, pq2, pq3>>,
         dn |-> safe_detect_number(p0, p1y, pq1, pq2, pq3)]

\* rsr_prot_pre.py: s0 is the aligned matrix date, the four past sessions are
\* projected without an emptiness test
pre_anchors(c, s0) ==
    LET r1y == pre_prev_or_same_session(c, SubYears(s0, 1))
        rq1 == pre_prev_or_same_session(c, AddMonths(s0, -3))
        rq2 == pre_prev_or_same_session(c, AddMonths(s0, -6))
        rq3 == pre_prev_or_same_session(c, AddMonths(s0, -9))
        bad == SelectSeq(<<r1y, rq1, rq2, rq3>>, LAMBDA r : r.err # "none")
    IN  [err |-> IF Len(bad) = 0 THEN "none" ELSE bad[1].err,
         s0 |-> s0, s1y |-> r1y.s, sq1 |-> rq1.s, sq2 |-> rq2.s,
         sq3 |-> rq3.s, s_future |-> 0]

\* rsr_prot_pre.py, loop body after the empty-row test
pre_score_ticker(closes, ss) ==
    LET p0  == pre_pick_close_on_or_before(closes, ss.s0)
        p1y == pre_pick_close_on_or_before(closes, ss.s1y)
        pq1 == pre_pick_close_on_or_before(closes, ss.sq1)
        pq2 == pre_pick_close_on_or_before(closes, ss.sq2)
        pq3 == pre_pick_close_on_or_before(closes, ss.sq3)
    IN  [p |-> <<p0, p1y, pq1, pq2, pq3>>,
         dn |-> pre_safe_detect_number(p0, p1y, pq1, pq2, pq3)]

\* the five prices rsr_at_day resolves
rsr_at_day_prices(closes, s0) ==
    <<pre_pick_close_on_or_before(closes, s0),
      pre_pick_close_on_or_before(closes, SubYears(s0, 1)),
      pre_pick_close_on_or_before(closes, AddMonths(s0, -3)),
      pre_pick_close_on_or_before(closes, AddMonths(s0, -6)),
      pre_pick_close_on_or_before(closes, AddMonths(s0, -9))>>

----------------------------------------------------------------------------
(* The matrix and the steps of main *)

\* df.loc[ticker]: the dated cells of the k-th instrument
Row(frame, k) ==
    [j \in 1..Len(frame.columns) |-> [d |-> frame.columns[j], v |-> frame.data[k][j]]]

\* the last column holding a price for some instrument
find_latest_date_with_any_data(frame) ==
    LET withData == SelectSeq(frame.columns,
                      LAMBDA c : \E k \in 1..Len(frame.index) :
                                   \E j \in 1..Len(frame.columns) :
                                     frame.columns[j] = c /\ ~IsNone(frame.data[k][j]))
    IN  IF Len(withData) = 0
        THEN [err |-> "ValueError:no_data", day |-> 0]
        ELSE [err |-> "none", day |-> withData[Len(withData)]]

\* rsr_old.py / RSRだけ.py: the last column at or before day
align_to_csv_available_date(frame, day) ==
    LET candidates == SelectSeq(frame.columns, LAMBDA c : c <= day)
    IN  IF Len(candidates) = 0
        THEN [err |-> "ValueError:no_csv_date", day |-> 0]
        ELSE [err |-> "none", day |-> candidates[Len(candidates)]]

\* rsr_prot_pre.py: max() of no column is NaT, which fails at the next strftime
pre_align_to_csv_available_date(frame, day) ==
    LET candidates == SelectSeq(frame.columns, LAMBDA c : c <= day)
    IN  IF Len(candidates) = 0
        THEN [err |-> "NaT", day |-> 0]
        ELSE [err |-> "none", day |-> candidates[Len(candidates)]]

\* rsr_old.py / RSRだけ.py: the base day of the run
resolve_base_day(frame, c, date) ==
    IF IsNone(date)
    THEN find_latest_date_with_any_data(frame)
    ELSE LET r == prev_or_same_session(c, Val(date))
         IN  IF r.err # "none" THEN [err |-> r.err, day |-> 0]
             ELSE align_to_csv_available_date(frame, r.s)

\* rsr_prot_pre.py: s0
pre_resolve_base_day(frame, c, start_date) ==
    LET r == pre_prev_or_same_session(c, start_date)
    IN  IF r.err # "none" THEN [err |-> r.err, day |-> 0]
        ELSE pre_align_to_csv_available_date(frame, r.s)

HORIZON_MONTHS == 12

\* rsr_prot_pre.py: s_future
pre_future_day(frame, c, s0) ==
    LET r == pre_prev_or_same_session(c, AddMonths(s0, HORIZON_MONTHS))
    IN  IF r.err # "none" THEN [err |-> r.err, day |-> 0]
        ELSE pre_align_to_csv_available_date(frame, r.s)

\* rsr_prot_pre.py
profit_pct(p0, p_future) ==
    IF IsNone(p0) \/ Val(p0) = 0 \/ IsNone(p_future) THEN None
    ELSE Some(RatMul(RatDiv(RatSub(RatInt(Val(p_future)), RatInt(Val(p0))),
                            RatInt(Val(p0))),
                     RatInt(100)))

\* list.sort(key=score, reverse=True) / sorted(..., reverse=True): descending,
\* entries with equal keys keep their order
RECURSIVE InsertDesc(_, _)
InsertDesc(sorted, x) ==
    IF sorted = <<>> THEN <<x>>
    ELSE IF RatLess(Head(sorted).v, x.v) THEN <<x>> \o sorted
    ELSE <<Head(sorted)>> \o InsertDesc(Tail(sorted), x)

RECURSIVE InsertDescTiesFirst(_, _)
InsertDescTiesFirst(sorted, x) ==
    IF sorted = <<>> THEN <<x>>
    ELSE IF RatLeq(Head(sorted).v, x.v) THEN <<x>> \o sorted
    ELSE <<Head(sorted)>> \o InsertDescTiesFirst(Tail(sorted), x)

\* a descending sort that reverses the entries with equal keys
RECURSIVE sort_desc_reversing_ties(_)
sort_desc_reversing_ties(xs) ==
    IF xs = <<>> THEN <<>>
    ELSE InsertDescTiesFirst(sort_desc_reversing_ties(SubSeq(xs, 1, Len(xs) - 1)),
                             xs[Len(xs)])

RECURSIVE sort_desc(_)
sort_desc(xs) ==
    IF xs = <<>> THEN <<>>
    ELSE InsertDesc(sort_desc(SubSeq(xs, 1, Len(xs) - 1)), xs[Len(xs)])

TOP_NUMBER == 40

\* results[:n]
Take(xs, n) == SubSeq(xs, 1, Min2(n, Len(xs)))

\* "TSE:" + str(t).split(".")[0]; a ticker is [pre, code, suf], its text being
\* pre + code + suf with the only "." in suf
tse_code(t) == <<"TSE:", t.pre, t.code>>

\* base_day.strftime("%Y-%m-%d"): the year, month and day fields of the text
strftime_ymd(day) == CivilFromDays(day)

\* ",".join(codes) as the sequence of its pieces
join_comma(codes) ==
    [k \in 1..(2 * Len(codes) - 1) |->
        IF k % 2 = 1 THEN codes[(k + 1) \div 2] ELSE ","]

\* text = ",".join(codes) + ","
artifact_text(codes) == join_comma(codes) \o <<",">>

----------------------------------------------------------------------------
(* Input pools *)

D(y, m, d) == DaysFromCivil(y, m, d)

\* the date columns of the matrix, sorted ascending
Columns ==
    <<D(2023, 1, 2), D(2023, 4, 3), D(2023, 7, 3), D(2023, 10, 2),
      D(2024, 1, 4), D(2024, 1, 10)>>

\* the cells of one instrument, one per column; na is an absent cell (NaN)
RowPool ==
    LET na == None
        c(x) == Some(x)
    IN  { <<c(100), c(110), c(120), c(90), c(130), c(150)>>,
          <<c(100), c(100), c(100), c(100), c(100), c(200)>>,
          <<na, na, na, na, na, na>>,
          <<na, na, na, na, c(130), c(150)>>,
          <<c(0), c(110), c(120), c(90), c(130), c(150)>>,
          <<c(100), c(110), c(120), c(90), c(130), c(0)>>,
          <<c(100), na, c(120), c(90), na, c(150)>>,
          <<c(100), c(110), c(120), c(90), c(130), na>> }

\* df.loc[ticker] as a dated row
RowOf(columns, cells) ==
    [k \in 1..Len(columns) |-> [d |-> columns[k], v |-> cells[k]]]

SeriesPool == { RowOf(Columns, cells) : cells \in RowPool }

XTKS ==
    [first |-> D(2006, 1, 4), last |-> D(2026, 12, 30),
     holidays |-> {D(2023, 1, 2), D(2023, 1, 3), D(2023, 1, 9),
                   D(2023, 10, 9), D(2024, 1, 1), D(2024, 1, 2),
                   D(2024, 1, 3), D(2024, 1, 8)}]

\* a calendar whose history starts less than three months before the data ends
YoungCal == [first |-> D(2023, 12, 1), last |-> D(2026, 12, 30), holidays |-> {}]

\* a calendar whose history starts after the data ends
LateCal == [first |-> D(2025, 1, 6), last |-> D(2026, 12, 30), holidays |-> {}]

CalPool == {XTKS, YoungCal, LateCal}

QueryDays ==
    {D(2022, 12, 1), D(2023, 1, 2), D(2023, 1, 10), D(2023, 4, 10),
     D(2023, 10, 2), D(2023, 10, 10), D(2024, 1, 4), D(2024, 1, 5),
     D(2024, 1, 8), D(2024, 1, 10), D(2024, 2, 1), D(2025, 1, 5)}

PriceOpts == {None, Some(0), Some(90), Some(100), Some(150)}

BaseDays == {D(2024, 1, 10), D(2024, 1, 4), D(2023, 10, 2), D(2024, 2, 29)}

----------------------------------------------------------------------------
(* State of a ranking run before it starts / when no run is modelled *)

EmptyDf == [columns |-> <<>>, index |-> <<>>, data |-> <<>>]
NoSess == [s0 |-> 0, s1y |-> 0, sq1 |-> 0, sq2 |-> 0, sq3 |-> 0, s_future |-> 0]
NoOut == [path |-> None, codes |-> <<>>, text |-> <<>>, status |-> None]

NoTotals == [n |-> 0]

\* no simulation is running
SimIdle ==
    /\ input_codes = <<>>
    /\ buy_date = None
    /\ sell_date = None
    /\ mode = "none"
    /\ sort_by = "none"
    /\ ok_rows = <<>>
    /\ ng_rows = <<>>
    /\ totals = NoTotals

RunIdle ==
    /\ script = "none"
    /\ cal = XTKS
    /\ df = EmptyDf
    /\ sim_date = None
    /\ top_n = 0
    /\ pc = "idle"
    /\ base_day = None
    /\ sess = NoSess
    /\ i = 0
    /\ results = <<>>
    /\ skipped = <<>>
    /\ out = NoOut
    /\ err = "none"
    /\ SimIdle

----------------------------------------------------------------------------
(* Point-in-time resolver called on a series and two query dates *)

ResolverFns ==
    {"pick_close_on_or_before", "pre_pick_close_on_or_before",
     "last_value_on_or_before"}

Resolve(fn, row, day) ==
    IF fn = "pick_close_on_or_before"
    THEN pick_close_on_or_before(dropna(row), day)
    ELSE IF fn = "pre_pick_close_on_or_before"
    THEN pre_pick_close_on_or_before(dropna(row), day)
    ELSE last_value_on_or_before(row, day).v

InitResolver ==
    /\ RunIdle
    /\ \E fn \in ResolverFns, row \in SeriesPool, d1 \in QueryDays, d2 \in QueryDays :
         probe = [op |-> "resolve", fn |-> fn, row |-> row, d1 |-> d1, d2 |-> d2,
                  done |-> FALSE, r1 |-> None, r2 |-> None]

CallResolver ==
    /\ probe.op = "resolve"
    /\ ~probe.done
    /\ probe' = [probe EXCEPT !.done = TRUE,
                              !.r1 = Resolve(probe.fn, probe.row, probe.d1),
                              !.r2 = Resolve(probe.fn, probe.row, probe.d2)]
    /\ UNCHANGED runVars

NextResolver == CallResolver

SpecResolver == InitResolver /\ [][NextResolver]_vars

\* the recorded dates of a row at or before day
RecordedUpTo(row, day) ==
    { row[k].d : k \in { j \in 1..Len(row) : ~IsNone(row[j].v) /\ row[j].d <= day } }

SetMax(S) == CHOOSE x \in S : \A y \in S : y <= x

\* the price recorded at the greatest recorded date <= day, None if there is none
LatestPrice(row, day) ==
    IF RecordedUpTo(row, day) = {} THEN None
    ELSE LET dmax == SetMax(RecordedUpTo(row, day))
             k == CHOOSE j \in 1..Len(row) : row[j].d = dmax
         IN  row[k].v

\* C1: the resolver returns the price recorded at the greatest recorded date
\* <= d, None exactly when no recorded date is <= d (empty series or all
\* dates later), and two query dates d1 <= d2 with the same latest recorded
\* entry get the identical price
C1_ResolverLatestAtOrBefore ==
    (probe.op = "resolve" /\ probe.done) =>
        /\ probe.r1 = LatestPrice(probe.row, probe.d1)
        /\ probe.r2 = LatestPrice(probe.row, probe.d2)
        /\ IsNone(probe.r1) <=> RecordedUpTo(probe.row, probe.d1) = {}
        /\ (/\ probe.d1 <= probe.d2
            /\ RecordedUpTo(probe.row, probe.d1) # {}
            /\ SetMax(RecordedUpTo(probe.row, probe.d1))
                 = SetMax(RecordedUpTo(probe.row, probe.d2)))
           => probe.r1 = probe.r2

\* a carry-backward case: the query date is not recorded, an earlier one is,
\* and a later query date falls on the same entry
C1_Witness ==
    /\ probe.op = "resolve" /\ probe.done
    /\ probe.d1 < probe.d2
    /\ probe.d1 \notin RecordedUpTo(probe.row, probe.d1)
    /\ Cardinality(RecordedUpTo(probe.row, probe.d1)) >= 2
    /\ RecordedUpTo(probe.row, probe.d1) = RecordedUpTo(probe.row, probe.d2)
    /\ ~IsNone(probe.r1)

----------------------------------------------------------------------------
(* Scorers called on five prices, or on a series and a base day *)

ScorerFns == {"safe_detect_number", "pre_safe_detect_number", "rsr_at_day"}

InitScorer ==
    /\ RunIdle
    /\ \/ \E fn \in {"safe_detect_number", "pre_safe_detect_number"},
             p \in [1..5 -> PriceOpts] :
            probe = [op |-> "score", kind |-> "prices", fn |-> fn, row |-> <<>>,
                     base |-> 0, p |-> p, done |-> FALSE, ret |-> None]
       \/ \E fn \in ScorerFns, row \in SeriesPool, base \in BaseDays :
            probe = [op |-> "score", kind |-> "series", fn |-> fn, row |-> row,
                     base |-> base, p |-> <<>>, done |-> FALSE, ret |-> None]

ScoreDirect(fn, p) ==
    IF fn = "safe_detect_number"
    THEN safe_detect_number(p[1], p[2], p[3], p[4], p[5])
    ELSE pre_safe_detect_number(p[1], p[2], p[3], p[4], p[5])

\* the prices and the score the script of scorer fn computes for a series
ScoreSeries(fn, row, base) ==
    LET closes == dropna(row)
    IN  IF fn = "safe_detect_number"
        THEN score_ticker(closes, ranking_anchors(XTKS, base))
        ELSE IF fn = "pre_safe_detect_number"
        THEN pre_score_ticker(closes, pre_anchors(XTKS, base))
        ELSE [p |-> rsr_at_day_prices(closes, base), dn |-> rsr_at_day(closes, base)]

CallScorerOnPrices ==
    /\ probe.op = "score" /\ probe.kind = "prices" /\ ~probe.done
    /\ probe' = [probe EXCEPT !.done = TRUE, !.ret = ScoreDirect(probe.fn, probe.p)]
    /\ UNCHANGED runVars

CallScorerOnSeries ==
    /\ probe.op = "score" /\ probe.kind = "series" /\ ~probe.done
    /\ LET r == ScoreSeries(probe.fn, probe.row, probe.base)
       IN  probe' = [probe EXCEPT !.done = TRUE, !.p = r.p, !.ret = r.dn]
    /\ UNCHANGED runVars

NextScorer == CallScorerOnPrices \/ CallScorerOnSeries

SpecScorer == InitScorer /\ [][NextScorer]_vars

Scored == probe.op = "score" /\ probe.done

AnyMissing(p) == \E k \in 1..5 : IsNone(p[k])
AnyHistoricalZero(p) == \E k \in 2..5 : ~IsNone(p[k]) /\ Val(p[k]) = 0

\* C2: the score is None whenever one of the five prices is missing or one
\* of the four historical prices is zero, in every scorer; an instrument with
\* no recorded date at or before base - 1 year never gets a score
C2_UndefinedOnMissingOrZero ==
    Scored =>
        /\ (AnyMissing(probe.p) \/ AnyHistoricalZero(probe.p)) => IsNone(probe.ret)
        /\ (probe.kind = "series"
              /\ RecordedUpTo(probe.row, SubYears(probe.base, 1)) = {})
           => IsNone(probe.ret)

\* a young listing: the base price is there, nothing is recorded a year back
C2_Witness ==
    /\ Scored
    /\ probe.kind = "series"
    /\ ~IsNone(probe.p[1])
    /\ RecordedUpTo(probe.row, SubYears(probe.base, 1)) = {}
    /\ IsNone(probe.ret)

\* C3: with five prices present and no historical price zero the score is
\* defined and finite in every scorer, whatever the base price
C3_DefinedOtherwise ==
    (Scored /\ ~AnyMissing(probe.p) /\ ~AnyHistoricalZero(probe.p))
        => (~IsNone(probe.ret) /\ IsFinite(Val(probe.ret)))

\* 100 * (0.4*(p0-pq1)/pq1 + 0.2*(p0-pq2)/pq2 + 0.2*(p0-pq3)/pq3 + 0.2*(p0-p1y)/p1y)
ClosedForm(p0, p1y, pq1, pq2, pq3) ==
    RatMul(RatInt(100),
           RatAdd(RatAdd(RatMul(<<2, 5>>, Rat(p0 - pq1, pq1)),
                         RatMul(<<1, 5>>, Rat(p0 - pq2, pq2))),
                  RatAdd(RatMul(<<1, 5>>, Rat(p0 - pq3, pq3)),
                         RatMul(<<1, 5>>, Rat(p0 - p1y, p1y)))))

\* the greatest session in [day - 40, day]
SessionOnOrBefore(c, day) ==
    SetMax({ x \in (day - 40)..day : IsSession(c, x) })

\* C4: a defined score equals the weighted composite of the five prices, the
\* weight 0.4 on the 3-month price only, the weights summing to 1; in the
\* ranking scripts the five prices are those resolved at the sessions of the
\* base day and of base - 1 year, - 3, - 6 and - 9 months
C4_CompositeFormula ==
    (Scored /\ ~IsNone(probe.ret)) =>
        /\ Val(probe.ret) = ClosedForm(Val(probe.p[1]), Val(probe.p[2]),
                                       Val(probe.p[3]), Val(probe.p[4]),
                                       Val(probe.p[5]))
        /\ WEIGHTS.q1 = <<2, 5>>
        /\ \A k \in {"q2", "q3", "y1"} : WEIGHTS[k] # <<2, 5>>
        /\ RatAdd(RatAdd(WEIGHTS.q1, WEIGHTS.q2), RatAdd(WEIGHTS.q3, WEIGHTS.y1))
             = RatInt(1)
        /\ (probe.kind = "series" /\ probe.fn = "safe_detect_number") =>
             probe.p = << LatestPrice(probe.row, SessionOnOrBefore(XTKS, probe.base)),
                          LatestPrice(probe.row,
                              SessionOnOrBefore(XTKS, SubYears(probe.base, 1))),
                          LatestPrice(probe.row,
                              SessionOnOrBefore(XTKS, AddMonths(probe.base, -3))),
                          LatestPrice(probe.row,
                              SessionOnOrBefore(XTKS, AddMonths(probe.base, -6))),
                          LatestPrice(probe.row,
                              SessionOnOrBefore(XTKS, AddMonths(probe.base, -9))) >>

\* a ranking-script score over five pairwise different prices
C4_Witness ==
    /\ Scored
    /\ probe.kind = "series"
    /\ probe.fn = "safe_detect_number"
    /\ ~IsNone(probe.ret)
    /\ Cardinality({probe.p[k] : k \in 1..5}) = 5

----------------------------------------------------------------------------
(* Projection of a date onto the calendar *)

SessionFns == {"prev_or_same_session", "pre_prev_or_same_session"}

InitCalendar ==
    /\ RunIdle
    /\ \E fn \in SessionFns, c \in CalPool, day \in QueryDays :
         probe = [op |-> "session", fn |-> fn, c |-> c, day |-> day,
                  done |-> FALSE, ret |-> [err |-> "none", s |-> 0]]

CallSession ==
    /\ probe.op = "session" /\ ~probe.done
    /\ probe' = [probe EXCEPT !.done = TRUE,
                   !.ret = IF probe.fn = "prev_or_same_session"
                           THEN prev_or_same_session(probe.c, probe.day)
                           ELSE pre_prev_or_same_session(probe.c, probe.day)]
    /\ UNCHANGED runVars

NextCalendar == CallSession

SpecCalendar == InitCalendar /\ [][NextCalendar]_vars

WindowSessions(c, day) == { x \in (day - 40)..day : IsSession(c, x) }

\* C7: every copy of prev_or_same_session returns the greatest session in
\* [d - 40 days, d], and fails with the calendar-resolution error (the
\* ValueError "no session on or before the date") when the window is empty
C7_WindowOrCalendarError ==
    (probe.op = "session" /\ probe.done) =>
        IF WindowSessions(probe.c, probe.day) = {}
        THEN probe.ret.err = "ValueError:no_session"
        ELSE /\ probe.ret.err = "none"
             /\ probe.ret.s = SetMax(WindowSessions(probe.c, probe.day))

----------------------------------------------------------------------------
(* A ranking run: rsr_old.main, RSRだけ.main, rsr_prot_pre.calc_scores_with_profit *)

\* "RSR_dake" stands for RSRだけ.py
Scripts == {"rsr_old", "RSR_dake", "rsr_prot_pre"}

Tk(code, suf) == [pre |-> "", code |-> code, suf |-> suf]

Tickers == <<Tk("A", ""), Tk("7203", ".T"), Tk("9984", ".T"), Tk("6758", ".T"),
             Tk("8306", ".T")>>

SimDates == {None, Some(D(2024, 1, 10)), Some(D(2024, 1, 8)), Some(D(2022, 12, 1))}

TopNs == {1, 2, TOP_NUMBER}

NoProbe == [op |-> "none"]

Init ==
    /\ script \in Scripts
    /\ cal \in CalPool
    /\ \E n \in 0..MaxRows : \E data \in [1..n -> RowPool] :
         df = [columns |-> Columns, index |-> SubSeq(Tickers, 1, n), data |-> data]
    /\ sim_date \in SimDates
    /\ script = "rsr_prot_pre" => ~IsNone(sim_date)
    /\ top_n \in TopNs
    /\ script # "rsr_old" => top_n = TOP_NUMBER
    /\ pc = "start"
    /\ base_day = None
    /\ sess = NoSess
    /\ i = 0
    /\ results = <<>>
    /\ skipped = <<>>
    /\ out = NoOut
    /\ err = "none"
    /\ SimIdle
    /\ probe = NoProbe

Abort(e) ==
    /\ pc' = "aborted"
    /\ err' = e
    /\ UNCHANGED <<script, cal, df, sim_date, top_n, base_day, sess, i, results,
                   skipped, out, probe, simVars>>

\* the base day: command-line / configured date projected onto a session and
\* aligned to a matrix column, or the latest column with data
ResolveBase ==
    /\ pc = "start"
    /\ LET r == IF script = "rsr_prot_pre"
                THEN pre_resolve_base_day(df, cal, Val(sim_date))
                ELSE resolve_base_day(df, cal, sim_date)
       IN  IF r.err # "none" THEN Abort(r.err)
           ELSE /\ base_day' = Some(r.day)
                /\ pc' = "anchors"
                /\ UNCHANGED <<script, cal, df, sim_date, top_n, sess, i, results,
                               skipped, out, err, probe, simVars>>

\* the reference sessions; an empty lookback window raises out of main
ResolveAnchors ==
    /\ pc = "anchors"
    /\ LET a == IF script = "rsr_prot_pre"
                THEN pre_anchors(cal, Val(base_day))
                ELSE ranking_anchors(cal, Val(base_day))
           f == IF script = "rsr_prot_pre" /\ a.err = "none"
                THEN pre_future_day(df, cal, Val(base_day))
                ELSE [err |-> "none", day |-> 0]
       IN  IF a.err # "none" THEN Abort(a.err)
           ELSE IF f.err # "none" THEN Abort(f.err)
           ELSE /\ sess' = [s0 |-> a.s0, s1y |-> a.s1y, sq1 |-> a.sq1,
                            sq2 |-> a.sq2, sq3 |-> a.sq3, s_future |-> f.day]
                /\ i' = 1
                /\ pc' = "loop"
                /\ UNCHANGED <<script, cal, df, sim_date, top_n, base_day, results,
                               skipped, out, err, probe, simVars>>

\* the loop iteration passing over an empty row without recording it
ScoreTicker_silent ==
    /\ pc = "loop"
    /\ script \in {"rsr_old", "RSR_dake"}
    /\ i <= Len(df.index)
    /\ LET ticker == df.index[i]
           row    == dropna(Row(df, i))
           r      == score_ticker(row, sess)
       IN  IF Len(row) = 0
           THEN skipped' = skipped /\ results' = results
           ELSE IF IsNone(r.dn)
           THEN skipped' = Append(skipped, ticker) /\ results' = results
           ELSE results' = Append(results, [t |-> ticker, v |-> Val(r.dn)])
                /\ skipped' = skipped
    /\ i' = i + 1
    /\ UNCHANGED <<script, cal, df, sim_date, top_n, pc, base_day, sess, out, err,
                   probe, simVars>>

\* one iteration of the loop over df.index in rsr_old.py / RSRだけ.py
ScoreTicker ==
    /\ pc = "loop"
    /\ script \in {"rsr_old", "RSR_dake"}
    /\ i <= Len(df.index)
    /\ LET ticker == df.index[i]
           row    == dropna(Row(df, i))
           r      == score_ticker(row, sess)
       IN  IF Len(row) = 0
           THEN skipped' = Append(skipped, ticker) /\ results' = results
           ELSE IF IsNone(r.dn)
           THEN skipped' = Append(skipped, ticker) /\ results' = results
           ELSE results' = Append(results, [t |-> ticker, v |-> Val(r.dn)])
                /\ skipped' = skipped
    /\ i' = i + 1
    /\ UNCHANGED <<script, cal, df, sim_date, top_n, pc, base_day, sess, out, err,
                   probe, simVars>>

\* one iteration of the loop in rsr_prot_pre.py: unscored tickers are passed over
PreScoreTicker ==
    /\ pc = "loop"
    /\ script = "rsr_prot_pre"
    /\ i <= Len(df.index)
    /\ LET ticker == df.index[i]
           closes == dropna(Row(df, i))
           r      == pre_score_ticker(closes, sess)
           pr     == profit_pct(r.p[1],
                                pre_pick_close_on_or_before(closes, sess.s_future))
       IN  IF Len(closes) = 0 THEN results' = results
           ELSE IF IsNone(r.dn) THEN results' = results
           ELSE results' = Append(results, [t |-> ticker, v |-> Val(r.dn), pr |-> pr])
    /\ i' = i + 1
    /\ UNCHANGED <<script, cal, df, sim_date, top_n, pc, base_day, sess, skipped,
                   out, err, probe, simVars>>

\* the end of the run reporting TOP_N itself as the count
Emit_count_top_n ==
    /\ pc = "loop"
    /\ script = "rsr_old"
    /\ i > Len(df.index)
    /\ LET sorted  == sort_desc(sort_desc(sort_desc(results)))
           TOP_N   == top_n
           top     == Take(sorted, TOP_N)
           codes   == [k \in 1..Len(top) |-> tse_code(top[k].t)]
           saved_n == TOP_N
       IN  /\ results' = sorted
           /\ out' = [path |-> Some([n |-> TOP_N, ymd |-> Val(base_day)]),
                      codes |-> codes,
                      text |-> artifact_text(codes),
                      status |-> Some([date |-> strftime_ymd(Val(base_day)), n |-> saved_n])]
    /\ pc' = "done"
    /\ UNCHANGED <<script, cal, df, sim_date, top_n, base_day, sess, i, skipped,
                   err, probe, simVars>>

\* rsr_old.py after the loop: three sorts, the top-N file, the status line
Emit ==
    /\ pc = "loop"
    /\ script = "rsr_old"
    /\ i > Len(df.index)
    /\ LET sorted  == sort_desc(sort_desc(sort_desc(results)))
           TOP_N   == top_n
           top     == Take(sorted, TOP_N)
           codes   == [k \in 1..Len(top) |-> tse_code(top[k].t)]
           saved_n == Min2(TOP_N, Len(sorted))
       IN  /\ results' = sorted
           /\ out' = [path |-> Some([n |-> TOP_N, ymd |-> Val(base_day)]),
                      codes |-> codes,
                      text |-> artifact_text(codes),
                      status |-> Some([date |-> strftime_ymd(Val(base_day)), n |-> saved_n])]
    /\ pc' = "done"
    /\ UNCHANGED <<script, cal, df, sim_date, top_n, base_day, sess, i, skipped,
                   err, probe, simVars>>

\* RSRだけ.py prints the sorted list, rsr_prot_pre.py returns it
SortOnly ==
    /\ pc = "loop"
    /\ script \in {"RSR_dake", "rsr_prot_pre"}
    /\ i > Len(df.index)
    /\ results' = sort_desc(results)
    /\ pc' = "done"
    /\ UNCHANGED <<script, cal, df, sim_date, top_n, base_day, sess, i, skipped,
                   out, err, probe, simVars>>

Next == ResolveBase \/ ResolveAnchors \/ ScoreTicker \/ PreScoreTicker \/ Emit
          \/ SortOnly

Spec == Init /\ [][Next]_vars

----------------------------------------------------------------------------
(* Properties of a ranking run *)

\* the matrix of the worked example: the one instrument A
ExampleDf ==
    [columns |-> Columns, index |-> <<Tk("A", "")>>,
     data |-> <<<<Some(100), Some(110), Some(120), Some(90), Some(130), Some(150)>>>>]

ExampleRun ==
    /\ pc = "done"
    /\ df = ExampleDf
    /\ base_day = Some(D(2024, 1, 10))

\* C5 as stated: on the example matrix with base date 2024-01-10 the score of
\* A is 100 * (0.4*(150-130)/130 + 0.2*(150-90)/90 + 0.2*(150-120)/120
\* + 0.2*(150-100)/100), about 34.5
C5_ExampleScoreAsStated ==
    ExampleRun =>
        /\ Len(results) = 1
        /\ results[1].v = ClosedForm(150, 100, 130, 90, 120)
        /\ RatLess(<<3445, 100>>, results[1].v)
        /\ RatLess(results[1].v, <<3455, 100>>)

\* C5 amended: the 3-, 6-, 9-month and 1-year anchors of 2024-01-10 resolve
\* to the prices 90, 120, 110 and 100, so the score of A is
\* 100 * (0.4*(150-90)/90 + 0.2*(150-120)/120 + 0.2*(150-110)/110
\* + 0.2*(150-100)/100) = 1615/33, about 48.9
C5_ExampleScore ==
    ExampleRun =>
        /\ Len(results) = 1
        /\ results[1].t = Tk("A", "")
        /\ results[1].v = ClosedForm(150, 100, 90, 120, 110)
        /\ results[1].v = <<1615, 33>>
        /\ RatLess(<<4889, 100>>, results[1].v)
        /\ RatLess(results[1].v, <<4899, 100>>)

C5_Witness ==
    /\ ExampleRun
    /\ script = "rsr_old"
    /\ sim_date = Some(D(2024, 1, 10))
    /\ Len(results) = 1

Finished == pc \in {"done", "aborted"}

AnchorTargets(base) ==
    {AddMonths(base, -3), AddMonths(base, -6), AddMonths(base, -9), SubYears(base, 1)}

\* C6: a run whose base day resolves to a session but one of whose derived
\* anchor dates has no session in its 40-day window still completes
C6_AnchorFailureIsASkip ==
    (/\ Finished
     /\ ~IsNone(base_day)
     /\ WindowSessions(cal, Val(base_day)) # {}
     /\ \E target \in AnchorTargets(Val(base_day)) : WindowSessions(cal, target) = {})
    => pc = "done"

\* position of a ticker in the matrix
IndexOf(t) == CHOOSE k \in 1..Len(df.index) : df.index[k] = t

SortedDescending(xs) ==
    \A j, k \in 1..Len(xs) : j < k => RatLeq(xs[k].v, xs[j].v)

TiesInInputOrder(xs) ==
    \A j, k \in 1..Len(xs) :
        (j < k /\ xs[j].v = xs[k].v) => IndexOf(xs[j].t) < IndexOf(xs[k].t)

\* C8: the ranked list is descending by score, equal scores keep the order of
\* the matrix, and the top-N output of rsr_old is the first min(N, scored)
\* entries, none of the others scoring strictly higher than a selected one
C8_RankedDescendingStable ==
    pc = "done" =>
        /\ SortedDescending(results)
        /\ TiesInInputOrder(results)
        /\ script = "rsr_old" =>
             /\ Len(out.codes) = Min2(top_n, Len(results))
             /\ \A k \in 1..Len(out.codes) : out.codes[k] = tse_code(results[k].t)
             /\ \A j \in 1..Len(out.codes) :
                  \A k \in (Len(out.codes) + 1)..Len(results) :
                     ~RatLess(results[j].v, results[k].v)

\* a truncated ranking with a tie and a strictly lower score
C8_Witness ==
    /\ pc = "done"
    /\ script = "rsr_old"
    /\ top_n < Len(results)
    /\ \E j, k \in 1..Len(results) : j < k /\ results[j].v = results[k].v
    /\ \E j, k \in 1..Len(results) : RatLess(results[k].v, results[j].v)

NoRecordedPrice(k) == \A j \in 1..Len(df.columns) : IsNone(df.data[k][j])

InResults(t) == \E k \in 1..Len(results) : results[k].t = t
InSkipped(t) == \E k \in 1..Len(skipped) : skipped[k] = t
InTopN(t) == \E k \in 1..Len(out.codes) : out.codes[k] = tse_code(t)

\* C9: an instrument without any recorded price is never among the scored
\* results nor in the top-N output, whatever top_n, and rsr_old and RSRだけ
\* put it in their skipped list
C9_EmptySeriesNeverScored ==
    pc = "done" =>
        \A k \in 1..Len(df.index) :
            NoRecordedPrice(k) =>
                /\ ~InResults(df.index[k])
                /\ ~InTopN(df.index[k])
                /\ script \in {"rsr_old", "RSR_dake"} => InSkipped(df.index[k])

C9_Witness ==
    /\ pc = "done"
    /\ script = "rsr_old"
    /\ top_n > Len(results)
    /\ Len(results) > 0
    /\ \E k \in 1..Len(df.index) : NoRecordedPrice(k) /\ InSkipped(df.index[k])

\* C10: after a ranking run of any of the three scripts every instrument of
\* the matrix is in exactly one of the scored list and the skipped set
C10_ScoredOrSkipped ==
    pc = "done" =>
        \A k \in 1..Len(df.index) :
            InResults(df.index[k]) <=> ~InSkipped(df.index[k])

----------------------------------------------------------------------------
(* The ranked artifact and the status line of rsr_old.py *)

\* the date a status line reads back as
StatusDay(st) == DaysFromCivil(st.date.y, st.date.m, st.date.d)

\* a text made of each code followed by a comma
EachFollowedByComma(codes) ==
    [k \in 1..(2 * Len(codes)) |-> IF k % 2 = 1 THEN codes[(k + 1) \div 2] ELSE ","]

StatusLineAsResolved ==
    /\ (out.status # None) <=> (pc = "done" /\ script = "rsr_old")
    /\ (pc = "done" /\ script = "rsr_old") =>
          /\ StatusDay(Val(out.status)) = Val(base_day)
          /\ \E j \in 1..Len(df.columns) : df.columns[j] = Val(base_day)
          /\ ~IsNone(sim_date) => Val(base_day) <= Val(sim_date)
          /\ Val(out.status).n = Len(out.codes)
          /\ Val(out.status).n = Min2(top_n, Len(results))
          /\ \A k \in 1..Len(out.codes) : out.codes[k] = tse_code(results[k].t)

\* C11 as stated: a finished run of rsr_old has one status line carrying the
\* resolved base day (a matrix column not later than the requested date) and
\* the number of codes written, min(TOP_N, number scored); the artifact is
\* the top codes in rank order, each as TSE:<code> followed by a comma
C11_StatusAndArtifactAsStated ==
    /\ StatusLineAsResolved
    /\ (pc = "done" /\ script = "rsr_old") =>
          out.text = EachFollowedByComma(out.codes)

\* C11 amended: the same status line; the artifact is the top codes in rank
\* order joined by commas and closed by one more comma, which is a lone comma
\* when no instrument was scored
C11_StatusAndArtifact ==
    /\ StatusLineAsResolved
    /\ (pc = "done" /\ script = "rsr_old") =>
          /\ Len(out.codes) > 0 => out.text = EachFollowedByComma(out.codes)
          /\ Len(out.codes) = 0 => out.text = <<",">>

\* a truncated list on a base day earlier than the requested date
C11_Witness ==
    /\ pc = "done"
    /\ script = "rsr_old"
    /\ ~IsNone(sim_date)
    /\ Val(base_day) < Val(sim_date)
    /\ top_n < Len(results)
    /\ Len(out.codes) = top_n
    /\ Val(out.status).n = top_n

----------------------------------------------------------------------------
(* Allocation of a fixed amount to one instrument: simulate_10k of         *)
(* simulation_10万円ずつ.py and the fixed single share of                    *)
(* simulation_一株づつ.py.                                                   *)

INVEST_YEN == 100000

SimError(e) ==
    [err |-> e, shares |-> FZero, cost |-> FZero, cash |-> FZero,
     value_now |-> FZero, profit |-> FZero, profit_pct |-> FZero]

\* profit = value_now - invest_yen; profit_pct = (profit / invest_yen) * 100.0
sim_result(shares, cost, cash, value_now, invest_yen) ==
    IF invest_yen = 0 THEN SimError("ZeroDivisionError")
    ELSE TheOnly({[err |-> "none", shares |-> shares, cost |-> cost, cash |-> cash,
                   value_now |-> value_now, profit |-> profit,
                   profit_pct |-> FMul(FDiv(profit, FInt(invest_yen)), FInt(100))] :
                      profit \in {FSub(value_now, FInt(invest_yen))}})

\* the value of the shares alone, the idle cash left out
sim_value_no_cash(shares, cost, cash, now, invest_yen) ==
    TheOnly({sim_result(shares, cost, cash, value_now, invest_yen) :
                 value_now \in {FMul(shares, now)}})

\* value_now = shares * now + cash
sim_value(shares, cost, cash, now, invest_yen) ==
    TheOnly({sim_result(shares, cost, cash, value_now, invest_yen) :
                 value_now \in {FAdd(FMul(shares, now), cash)}})

\* cash = invest_yen - cost
sim_cash(shares, cost, now, invest_yen) ==
    TheOnly({sim_value(shares, cost, cash, now, invest_yen) :
                 cash \in {FSub(FInt(invest_yen), cost)}})

\* cost = shares * past
sim_bought(shares, past, now, invest_yen) ==
    TheOnly({sim_cash(shares, cost, now, invest_yen) :
                 cost \in {FMul(shares, past)}})

\* lots = int(invest_yen // (past * lot)); shares = float(lots * lot)
lot100_shares(past, invest_yen) ==
    FInt(FToInt(FFloorDiv(FInt(invest_yen), FMul(past, FInt(100)))) * 100)

\* shares by the allocation policy
sim_shares(past, invest_yen, alloc) ==
    IF alloc = "fractional" THEN FDiv(FInt(invest_yen), past)
    ELSE IF alloc = "1share" THEN FFloorDiv(FInt(invest_yen), past)
    ELSE lot100_shares(past, invest_yen)

simulate_10k(past, now, invest_yen, alloc) ==
    IF IsNone(past) \/ IsNone(now) \/ FLeq(Val(past), FZero)
    THEN [err |-> "none", shares |-> FZero, cost |-> FZero,
          cash |-> FInt(invest_yen), value_now |-> FInt(invest_yen),
          profit |-> FZero, profit_pct |-> FZero]
    ELSE IF alloc = "fractional"
    THEN TheOnly({sim_value(shares, FInt(invest_yen), FZero, Val(now), invest_yen) :
                      shares \in {sim_shares(Val(past), invest_yen, alloc)}})
    ELSE IF alloc \in {"1share", "lot100"}
    THEN TheOnly({sim_bought(shares, Val(past), Val(now), invest_yen) :
                      shares \in {sim_shares(Val(past), invest_yen, alloc)}})
    ELSE SimError("ValueError:mode")

\* diff = now - past; pct = (diff / past) * 100.0, for past # 0
price_return(past, now) ==
    [diff |-> FSub(now, past), pct |-> FMul(FDiv(FSub(now, past), past), FInt(100))]

\* simulation_一株づつ.py: one share of every instrument
one_share(past, now) ==
    [err |-> "none", shares |-> FInt(1), cost |-> past, value_now |-> now,
     profit |-> price_return(past, now).diff,
     profit_pct |-> price_return(past, now).pct]

Modes == {"fractional", "1share", "lot100"}

\* float(text) of a price written with one decimal, tenths being its tenfold
Price(tenths) == FDiv(FInt(tenths), FInt(10))

\* float(text) of an adjusted price, the double nearest to num / den
AdjustedPrice(num, den) == FDiv(FInt(num), FInt(den))

\* 0, 1.6, 11, 90, 100, 3000 and 3300 yen, and the adjusted prices
\* 2.5641025641025643 and 142.85714285714286
AllocPrices ==
    {Price(t) : t \in {0, 16, 110, 900, 1000, 30000, 33000}}
        \cup {AdjustedPrice(100, 39), AdjustedPrice(1000, 7)}

AllocPriceOpts == {None} \cup {Some(p) : p \in AllocPrices}

InvestPool == {0, 10000, INVEST_YEN}

InitAlloc ==
    /\ RunIdle
    /\ \/ \E past \in AllocPriceOpts, now \in AllocPriceOpts, invest_yen \in InvestPool,
             alloc \in Modes \cup {"margin"} :
            probe = [op |-> "simulate_10k", past |-> past, now |-> now,
                     invest_yen |-> invest_yen, mode |-> alloc,
                     done |-> FALSE, r |-> SimError("none")]
       \/ \E past \in AllocPrices \ {FZero}, now \in AllocPrices :
            probe = [op |-> "one_share", past |-> Some(past),
                     now |-> Some(now), invest_yen |-> 0, mode |-> "one",
                     done |-> FALSE, r |-> SimError("none")]

CallSimulate10k ==
    /\ probe.op = "simulate_10k"
    /\ ~probe.done
    /\ probe' = [probe EXCEPT !.done = TRUE,
                              !.r = simulate_10k(probe.past, probe.now,
                                                 probe.invest_yen, probe.mode)]
    /\ UNCHANGED runVars

CallOneShare ==
    /\ probe.op = "one_share"
    /\ ~probe.done
    /\ probe' = [probe EXCEPT !.done = TRUE,
                              !.r = one_share(Val(probe.past), Val(probe.now))]
    /\ UNCHANGED runVars

NextAlloc == CallSimulate10k \/ CallOneShare

SpecAlloc == InitAlloc /\ [][NextAlloc]_vars

AllocDone == probe.op = "simulate_10k" /\ probe.done
OneShareDone == probe.op = "one_share" /\ probe.done

\* a buy price above zero, a comparison price and an amount above zero
PositiveInputs ==
    /\ ~IsNone(probe.past)
    /\ ~IsNone(probe.now)
    /\ FLess(FZero, Val(probe.past))
    /\ probe.invest_yen > 0
    /\ probe.mode \in Modes

IsWhole(x) == x.k = "num" /\ x.e >= 0

\* the exact product of two floats, not rounded
ExactMul(a, b) ==
    [k |-> "num", s |-> a.s * b.s, m |-> BigMul(a.m, b.m), e |-> a.e + b.e]

\* a <= b for exact values a, b >= 0
ExactLeq(a, b) ==
    BigCmp(BigShl(a.m, a.e - Min2(a.e, b.e)), BigShl(b.m, b.e - Min2(a.e, b.e))) <= 0

\* n = floor(amount / unit) for whole floats n, amount and a float unit > 0
IsFloorOfQuotient(n, amount, unit) ==
    /\ IsWhole(n)
    /\ n.s >= 0
    /\ ExactLeq(ExactMul(n, unit), amount)
    /\ ~ExactLeq(ExactMul(FAdd(n, FInt(1)), unit), amount)

\* C15: for a positive buy price and amount simulate_10k buys invest/buy
\* shares with no idle cash in fractional mode, floor(invest/buy) shares in
\* whole-unit mode and floor(invest/(buy*100))*100 shares in round-lot mode,
\* both with idle cash invest - shares*buy; the one-share script buys 1 share
\* at the buy price
C15_AllocationShares ==
    /\ (AllocDone /\ PositiveInputs) =>
          /\ probe.r.err = "none"
          /\ probe.mode = "fractional" =>
                /\ probe.r.shares = FDiv(FInt(probe.invest_yen), Val(probe.past))
                /\ probe.r.cash = FZero
          /\ probe.mode = "1share" =>
                IsFloorOfQuotient(probe.r.shares, FInt(probe.invest_yen),
                                  Val(probe.past))
          /\ probe.mode = "lot100" =>
                /\ IsWhole(probe.r.shares)
                /\ FToInt(probe.r.shares) % 100 = 0
                /\ IsFloorOfQuotient(FInt(FToInt(probe.r.shares) \div 100),
                                     FInt(probe.invest_yen),
                                     ExactMul(Val(probe.past), FInt(100)))
          /\ probe.mode \in {"1share", "lot100"} =>
                probe.r.cash = FSub(FInt(probe.invest_yen),
                                    FMul(probe.r.shares, Val(probe.past)))
    /\ OneShareDone =>
          /\ probe.r.shares = FInt(1)
          /\ probe.r.cost = Val(probe.past)

\* C16: the round-lot share count simulate_10k returns is a non-negative
\* multiple of 100, not above the fractional share count and not above the
\* whole-unit share count for the same inputs
C16_RoundLotShares ==
    (AllocDone /\ probe.mode = "lot100" /\ probe.r.err = "none") =>
        /\ IsWhole(probe.r.shares)
        /\ probe.r.shares.s >= 0
        /\ FToInt(probe.r.shares) % 100 = 0
        /\ FLeq(probe.r.shares,
                simulate_10k(probe.past, probe.now, probe.invest_yen,
                             "fractional").shares)
        /\ FLeq(probe.r.shares,
                simulate_10k(probe.past, probe.now, probe.invest_yen,
                             "1share").shares)

\* C17: value_now = shares * comparison price + idle cash, profit =
\* value_now - invest and profit_pct = profit / invest * 100; with one fixed
\* share profit = comparison price - buy price on the basis of the buy price;
\* 100000 yen at 3000 sold at 3300 in whole units gives 33 shares, cost 99000,
\* idle cash 1000, value 109900, profit 9900 and 9.9 percent
C17_RowValueAndProfit ==
    /\ (AllocDone /\ PositiveInputs) =>
          /\ probe.r.value_now
               = FAdd(FMul(probe.r.shares, Val(probe.now)), probe.r.cash)
          /\ probe.r.profit = FSub(probe.r.value_now, FInt(probe.invest_yen))
          /\ probe.r.profit_pct
               = FMul(FDiv(probe.r.profit, FInt(probe.invest_yen)), FInt(100))
    /\ OneShareDone =>
          /\ probe.r.value_now = Val(probe.now)
          /\ probe.r.profit = FSub(Val(probe.now), Val(probe.past))
          /\ probe.r.profit_pct
               = FMul(FDiv(probe.r.profit, Val(probe.past)), FInt(100))
    /\ ( /\ AllocDone
         /\ probe.past = Some(FInt(3000))
         /\ probe.now = Some(FInt(3300))
         /\ probe.invest_yen = INVEST_YEN
         /\ probe.mode = "1share" ) =>
          /\ probe.r.shares = FInt(33)
          /\ probe.r.cost = FInt(99000)
          /\ probe.r.cash = FInt(1000)
          /\ probe.r.value_now = FInt(109900)
          /\ probe.r.profit = FInt(9900)
          /\ probe.r.profit_pct = FDiv(FInt(99), FInt(10))

\* the worked example has been computed
C17_Witness ==
    /\ AllocDone
    /\ probe.past = Some(FInt(3000))
    /\ probe.now = Some(FInt(3300))
    /\ probe.invest_yen = INVEST_YEN
    /\ probe.mode = "1share"
    /\ probe.r.value_now = FInt(109900)
    /\ probe.r.cash = FInt(1000)

----------------------------------------------------------------------------
(* Simulation runs: simulation.py, simulation_10万円ずつ.py,                  *)
(* simulation_一株づつ.py (a past date against the latest price) and          *)
(* simulation_onebuy_in_v3.py (a buy date against a sell date)              *)

\* "simulation_10man" stands for simulation_10万円ずつ.py and
\* "simulation_1kabu" for simulation_一株づつ.py
VsLatestScripts == {"simulation", "simulation_10man", "simulation_1kabu"}

SimScripts == VsLatestScripts \cup {"simulation_onebuy_in_v3"}

\* an index key of the matrix: the text pre + code + suf, code of four digits
Key(pre, code, suf) == [pre |-> pre, code |-> code, suf |-> suf]

\* f"{code}.T", f"TSE:{code}", code
candidates(code) == <<Key("", code, ".T"), Key("TSE:", code, ""), Key("", code, "")>>

\* k.endswith(code)
EndsWithCode(k, code) == k.suf = "" /\ k.code = code

\* k.endswith(f"{code}.T")
EndsWithCodeT(k, code) == k.suf = ".T" /\ k.code = code

\* the keys resolve_row_key can return: the first candidate in the index,
\* else any key ending with the code, the index set being iterated in no
\* fixed order, else None
resolve_row_key(frame, code) ==
    LET idx_set == {frame.index[k] : k \in 1..Len(frame.index)}
        found   == SelectSeq(candidates(code), LAMBDA k : k \in idx_set)
        ending  == {k \in idx_set : \/ EndsWithCodeT(k, code)
                                    \/ k = Key("TSE:", code, "")
                                    \/ EndsWithCode(k, code)}
    IN  IF Len(found) > 0 THEN {Some(found[1])}
        ELSE IF ending # {} THEN {Some(k) : k \in ending}
        ELSE {None}

\* simulation_onebuy_in_v3.py: the index is a list, searched in its order
onebuy_resolve_row_key(frame, code) ==
    LET idx    == frame.index
        found  == SelectSeq(candidates(code),
                            LAMBDA k : \E j \in 1..Len(idx) : idx[j] = k)
        ending == SelectSeq(idx, LAMBDA k : EndsWithCode(k, code))
    IN  IF Len(found) > 0 THEN Some(found[1])
        ELSE IF Len(ending) > 0 THEN Some(ending[1])
        ELSE None

\* df.loc[key]
loc(frame, key) == Row(frame, CHOOSE j \in 1..Len(frame.index) : frame.index[j] = key)

\* the first recorded entry of the row
last_value_first(row) ==
    IF Len(dropna(row)) = 0 THEN [v |-> None, d |-> None]
    ELSE [v |-> dropna(row)[1].v, d |-> Some(dropna(row)[1].d)]

\* last_value: the last recorded entry of the row
last_value(row) ==
    IF Len(dropna(row)) = 0 THEN [v |-> None, d |-> None]
    ELSE [v |-> dropna(row)[Len(dropna(row))].v,
          d |-> Some(dropna(row)[Len(dropna(row))].d)]

\* simulation_onebuy_in_v3.py: one emptiness test after both filters
onebuy_last_value_on_or_before(row, target) ==
    LET s == SelectSeq(dropna(row), LAMBDA e : e.d <= target)
    IN  IF Len(s) = 0 THEN [v |-> None, d |-> None]
        ELSE [v |-> s[Len(s)].v, d |-> Some(s[Len(s)].d)]

\* float(s.iloc[-1]) of a resolved entry
to_float(e) == [v |-> IF IsNone(e.v) THEN None ELSE Some(FInt(Val(e.v))), d |-> e.d]

\* the reason the vs-latest scripts leave an instrument out, "none" otherwise
vs_latest_reason(key, past, now) ==
    IF IsNone(key) THEN "row_not_found"
    ELSE IF IsNone(past.v) THEN "no_past_data"
    ELSE IF IsNone(now.v) THEN "no_latest_data"
    ELSE IF FIsZero(Val(past.v)) THEN "past_is_zero"
    ELSE "none"

\* the reason simulation_onebuy_in_v3.py leaves an instrument out
onebuy_reason(key, buy, sell) ==
    IF IsNone(key) THEN "row_not_found"
    ELSE IF IsNone(buy.v) \/ IsNone(sell.v) \/ FIsZero(Val(buy.v)) THEN "no_data"
    ELSE "none"

ng_row(pos, code, reason) == [pos |-> pos, ticker |-> Tk(code, ".T"), reason |-> reason]

\* the row of simulation.py and simulation_onebuy_in_v3.py (whose "buy",
\* "sell", "buy_used", "sell_used" are past, now, past_used, now_used here;
\* simulation.py holds the two dates in _past_used and _now_used)
price_row(pos, code, past, now, pr) ==
    [pos |-> pos, ticker |-> Tk(code, ".T"), past |-> Val(past.v), now |-> Val(now.v),
     diff |-> pr.diff, pct |-> pr.pct,
     past_used |-> Val(past.d), now_used |-> Val(now.d)]

\* the row of simulation_10万円ずつ.py
alloc_row(base, sim) ==
    base @@ [shares |-> sim.shares, cost |-> sim.cost, cash |-> sim.cash,
             value_now |-> sim.value_now, profit |-> sim.profit,
             profit_pct |-> sim.profit_pct]

\* the row of simulation_一株づつ.py
one_share_row(base, sim) ==
    base @@ [shares |-> sim.shares, cost |-> sim.cost, value_now |-> sim.value_now,
             profit |-> sim.profit, profit_pct |-> sim.profit_pct]

\* the dict appended to ok_rows
ok_row(s, alloc, pos, code, past, now) ==
    IF s = "simulation_10man"
    THEN TheOnly({alloc_row(price_row(pos, code, past, now, pr), sim) :
                      pr \in {price_return(Val(past.v), Val(now.v))},
                      sim \in {simulate_10k(past.v, now.v, INVEST_YEN, alloc)}})
    ELSE IF s = "simulation_1kabu"
    THEN TheOnly({one_share_row(price_row(pos, code, past, now, pr), sim) :
                      pr \in {price_return(Val(past.v), Val(now.v))},
                      sim \in {one_share(Val(past.v), Val(now.v))}})
    ELSE TheOnly({price_row(pos, code, past, now, pr) :
                      pr \in {price_return(Val(past.v), Val(now.v))}})

\* rows.sort(key=lambda x: x[key], reverse=True): descending, rows with equal
\* keys keep their order
RECURSIVE InsertRowDesc(_, _, _)
InsertRowDesc(sorted, x, key) ==
    IF sorted = <<>> THEN <<x>>
    ELSE IF FLess(Head(sorted)[key], x[key]) THEN <<x>> \o sorted
    ELSE <<Head(sorted)>> \o InsertRowDesc(Tail(sorted), x, key)

RECURSIVE sort_rows(_, _)
sort_rows(rows, key) ==
    IF rows = <<>> THEN <<>>
    ELSE InsertRowDesc(sort_rows(SubSeq(rows, 1, Len(rows) - 1), key),
                       rows[Len(rows)], key)

\* the key the rows are sorted by: SORT_BY in simulation_10万円ずつ.py and
\* simulation_一株づつ.py, always pct elsewhere (--sort is parsed and not used)
sort_key(s, by) ==
    IF s \in {"simulation_10man", "simulation_1kabu"} /\ by = "profit_pct"
    THEN "profit_pct"
    ELSE "pct"

\* sum(r[f] for r in rows): from 0, in the order of the rows
RECURSIVE sum_field(_, _)
sum_field(rows, f) ==
    IF rows = <<>> THEN FZero
    ELSE TheOnly({FAdd(acc, rows[Len(rows)][f]) :
                      acc \in {sum_field(SubSeq(rows, 1, Len(rows) - 1), f)}})

\* (profit / basis) * 100.0 if basis else float("nan")
total_pct(profit, basis) ==
    IF FIsZero(basis) THEN FNaN ELSE FMul(FDiv(profit, basis), FInt(100))

\* the totals of simulation.py: sum_past, sum_now, sum_diff, total_pct
vs_latest_totals(rows, basis, value, profit) ==
    [n |-> Len(rows), basis |-> basis, value |-> value, profit |-> profit,
     pct |-> total_pct(profit, basis)]

\* the totals computed from the total value and the total basis:
\* total_profit = total_value - total_basis
diff_totals(rows, basis, value) ==
    TheOnly({[n |-> Len(rows), basis |-> basis, value |-> value, profit |-> profit,
              pct |-> total_pct(profit, basis)] :
                 profit \in {FSub(value, basis)}})

\* simulation_10万円ずつ.py: total_alloc = INVEST_YEN * len(ok_rows), with the
\* totals of cost and idle cash
alloc_totals(rows) ==
    diff_totals(rows, FInt(INVEST_YEN * Len(rows)), sum_field(rows, "value_now"))
        @@ [cost |-> sum_field(rows, "cost"), cash |-> sum_field(rows, "cash")]

\* the figures of the totals line; basis is sum_past / total_buy /
\* total_alloc / total_cost and value is sum_now / total_sell / total_value_now
sim_totals(s, rows) ==
    IF s = "simulation"
    THEN vs_latest_totals(rows, sum_field(rows, "past"), sum_field(rows, "now"),
                          sum_field(rows, "diff"))
    ELSE IF s = "simulation_onebuy_in_v3"
    THEN diff_totals(rows, sum_field(rows, "past"), sum_field(rows, "now"))
    ELSE IF s = "simulation_1kabu"
    THEN diff_totals(rows, sum_field(rows, "cost"), sum_field(rows, "value_now"))
    ELSE alloc_totals(rows)

\* the most codes in an input list
MaxCodes == 2

\* 1111 is in no matrix
CodePool == {"7203", "9984", "8306", "1111"}

\* the lists extract_codes_from_csv / extract_codes_from_any_text return:
\* four-digit codes, each once
CodeLists ==
    UNION {{s \in [1..n -> CodePool] : \A a, b \in 1..n : a # b => s[a] # s[b]} :
              n \in 0..MaxCodes}

SimIndex == <<Key("", "7203", ".T"), Key("TSE:", "9984", ""), Key("", "8306", "")>>

\* no key is a candidate of 7203, two keys end with it
SuffixIndex == <<Key("JP:", "7203", ""), Key("X", "7203", ".T"), Key("", "9984", ".T")>>

SimFrame(index, r1, r2, r3) ==
    [columns |-> Columns, index |-> index, data |-> <<r1, r2, r3>>]

SimFrames ==
    LET na   == None
        c(x) == Some(x)
        rising  == <<c(3000), c(3000), c(3100), c(3200), c(3300), c(3300)>>
        ended   == <<c(11), c(11), na, na, na, na>>
        zero    == <<c(0), c(0), c(100), c(100), c(110), c(120)>>
        flat    == <<c(90), c(90), c(90), c(90), c(90), c(90)>>
        empty   == <<na, na, na, na, na, na>>
        young   == <<na, na, na, na, c(130), c(150)>>
        falling == <<c(150), c(140), c(130), c(120), c(110), c(100)>>
    IN  { SimFrame(SimIndex, rising, ended, zero),
          SimFrame(SimIndex, flat, empty, young),
          SimFrame(SimIndex, falling, rising, flat),
          SimFrame(SuffixIndex, ended, rising, flat) }

\* before the first column, the first column, between two columns, the last
SimDays == {D(2022, 12, 1), D(2023, 1, 2), D(2023, 5, 1), D(2024, 1, 10)}

SortKeys == {"pct", "profit_pct"}

\* buy_date holds PAST_DATE in the vs-latest scripts, mode holds MODE and
\* sort_by holds SORT_BY / --sort
InitSim ==
    /\ script \in SimScripts
    /\ cal = XTKS
    /\ df \in SimFrames
    /\ sim_date = None
    /\ top_n = 0
    /\ pc = "start"
    /\ base_day = None
    /\ sess = NoSess
    /\ i = 1
    /\ results = <<>>
    /\ skipped = <<>>
    /\ out = NoOut
    /\ err = "none"
    /\ input_codes \in CodeLists
    /\ buy_date \in {Some(d) : d \in SimDays}
    /\ sell_date \in IF script = "simulation_onebuy_in_v3"
                     THEN {Some(d) : d \in SimDays} ELSE {None}
    /\ mode \in IF script = "simulation_10man" THEN Modes ELSE {"none"}
    /\ sort_by \in IF script = "simulation" THEN {"none"} ELSE SortKeys
    /\ ok_rows = <<>>
    /\ ng_rows = <<>>
    /\ totals = NoTotals
    /\ probe = NoProbe

\* the checks of main before the loop, the comparison of the two dates left out
SimBegin_unchecked ==
    /\ pc = "start"
    /\ script \in SimScripts
    /\ IF input_codes = <<>>
       THEN Abort("SystemExit:no_codes")
       ELSE /\ pc' = "loop"
            /\ UNCHANGED <<script, cal, df, sim_date, top_n, base_day, sess, i,
                           results, skipped, out, err, probe, simVars>>

\* the checks of main before the loop
SimBegin ==
    /\ pc = "start"
    /\ script \in SimScripts
    /\ IF script = "simulation_onebuy_in_v3" /\ Val(sell_date) < Val(buy_date)
       THEN Abort("SystemExit:sell_before_buy")
       ELSE IF input_codes = <<>>
       THEN Abort("SystemExit:no_codes")
       ELSE /\ pc' = "loop"
            /\ UNCHANGED <<script, cal, df, sim_date, top_n, base_day, sess, i,
                           results, skipped, out, err, probe, simVars>>

\* a pass of the loop that drops an instrument without listing it
RowVsLatest_silent(key, code, past, now) ==
    IF vs_latest_reason(key, past, now) # "none"
    THEN UNCHANGED <<ok_rows, ng_rows>>
    ELSE /\ ok_rows' = Append(ok_rows, ok_row(script, mode, i, code, past, now))
         /\ UNCHANGED ng_rows

\* one pass of the loop over the codes, on the row found under key
RowVsLatest(key, code, past, now) ==
    IF vs_latest_reason(key, past, now) # "none"
    THEN /\ ng_rows' = Append(ng_rows, ng_row(i, code, vs_latest_reason(key, past, now)))
         /\ UNCHANGED ok_rows
    ELSE /\ ok_rows' = Append(ok_rows, ok_row(script, mode, i, code, past, now))
         /\ UNCHANGED ng_rows

NoEntry == [v |-> None, d |-> None]

SimRowVsLatest ==
    /\ pc = "loop"
    /\ script \in VsLatestScripts
    /\ i <= Len(input_codes)
    /\ \E key \in resolve_row_key(df, input_codes[i]) :
          IF IsNone(key)
          THEN RowVsLatest(key, input_codes[i], NoEntry, NoEntry)
          ELSE RowVsLatest(key, input_codes[i],
                           to_float(last_value_on_or_before(loc(df, Val(key)),
                                                            Val(buy_date))),
                           to_float(last_value(loc(df, Val(key)))))
    /\ i' = i + 1
    /\ UNCHANGED <<script, cal, df, sim_date, top_n, pc, base_day, sess, results,
                   skipped, out, err, probe, input_codes, buy_date, sell_date,
                   mode, sort_by, totals>>

RowOneBuy(key, code, buy, sell) ==
    IF onebuy_reason(key, buy, sell) # "none"
    THEN /\ ng_rows' = Append(ng_rows, ng_row(i, code, onebuy_reason(key, buy, sell)))
         /\ UNCHANGED ok_rows
    ELSE /\ ok_rows' = Append(ok_rows, ok_row(script, mode, i, code, buy, sell))
         /\ UNCHANGED ng_rows

SimRowOneBuy ==
    /\ pc = "loop"
    /\ script = "simulation_onebuy_in_v3"
    /\ i <= Len(input_codes)
    /\ IF IsNone(onebuy_resolve_row_key(df, input_codes[i]))
       THEN RowOneBuy(None, input_codes[i], NoEntry, NoEntry)
       ELSE RowOneBuy(onebuy_resolve_row_key(df, input_codes[i]), input_codes[i],
                      to_float(onebuy_last_value_on_or_before(
                                 loc(df, Val(onebuy_resolve_row_key(df, input_codes[i]))),
                                 Val(buy_date))),
                      to_float(onebuy_last_value_on_or_before(
                                 loc(df, Val(onebuy_resolve_row_key(df, input_codes[i]))),
                                 Val(sell_date))))
    /\ i' = i + 1
    /\ UNCHANGED <<script, cal, df, sim_date, top_n, pc, base_day, sess, results,
                   skipped, out, err, probe, input_codes, buy_date, sell_date,
                   mode, sort_by, totals>>

\* after the loop: the rows are sorted, the totals computed and the report
\* printed
SimReport ==
    /\ pc = "loop"
    /\ script \in SimScripts
    /\ i > Len(input_codes)
    /\ ok_rows' = sort_rows(ok_rows, sort_key(script, sort_by))
    /\ totals' = sim_totals(script, ok_rows')
    /\ pc' = "done"
    /\ UNCHANGED <<script, cal, df, sim_date, top_n, base_day, sess, i, results,
                   skipped, out, err, probe, input_codes, buy_date, sell_date,
                   mode, sort_by, ng_rows>>

NextSim == SimBegin \/ SimRowVsLatest \/ SimRowOneBuy \/ SimReport

SpecSim == InitSim /\ [][NextSim]_vars

SimDone == script \in SimScripts /\ pc = "done"

----------------------------------------------------------------------------
(* Properties of a simulation run *)

InOk(p) == \E k \in 1..Len(ok_rows) : ok_rows[k].pos = p
InNg(p) == \E k \in 1..Len(ng_rows) : ng_rows[k].pos = p

OkRow(p) == ok_rows[CHOOSE k \in 1..Len(ok_rows) : ok_rows[k].pos = p]

\* the positions of the input list the loop has dealt with
Processed == IF pc = "start" THEN {} ELSE 1..(i - 1)

\* the comparison price of a row: at the sell date, or the latest one
ComparisonPrice(row) ==
    IF script = "simulation_onebuy_in_v3" THEN LatestPrice(row, Val(sell_date))
    ELSE LatestPrice(row, Columns[Len(Columns)])

\* row k of the matrix is a row of the code with a buy price that is neither
\* missing nor zero and a comparison price, and r holds these prices
IncludedFrom(r, k, code) ==
    /\ df.index[k].code = code
    /\ ~IsNone(LatestPrice(Row(df, k), Val(buy_date)))
    /\ Val(LatestPrice(Row(df, k), Val(buy_date))) # 0
    /\ ~IsNone(ComparisonPrice(Row(df, k)))
    /\ r.past = FInt(Val(LatestPrice(Row(df, k), Val(buy_date))))
    /\ r.now = FInt(Val(ComparisonPrice(Row(df, k))))

\* C12: in every simulation script an instrument whose row is not found,
\* whose buy price is missing or zero or whose comparison price is missing is
\* in the skipped set with a reason and in no included row, so that it adds
\* nothing to a total; every input code dealt with is in exactly one of the
\* included rows and the skipped set
C12_SkippedWithReason ==
    (script \in SimScripts /\ pc \in {"loop", "done"}) =>
        /\ \A p \in Processed :
              /\ InOk(p) <=> ~InNg(p)
              /\ Cardinality({k \in 1..Len(ok_rows) : ok_rows[k].pos = p}) <= 1
              /\ Cardinality({k \in 1..Len(ng_rows) : ng_rows[k].pos = p}) <= 1
              /\ InOk(p) =>
                    \E k \in 1..Len(df.index) :
                        IncludedFrom(OkRow(p), k, input_codes[p])
        /\ \A k \in 1..Len(ng_rows) :
              /\ ng_rows[k].pos \in Processed
              /\ ng_rows[k].reason \in {"row_not_found", "no_past_data",
                                        "no_latest_data", "past_is_zero", "no_data"}
        /\ \A k \in 1..Len(ok_rows) : ok_rows[k].pos \in Processed
        /\ pc = "done" =>
              /\ Len(ok_rows) + Len(ng_rows) = Len(input_codes)
              /\ totals.n = Len(ok_rows)

\* a finished run with an included row and an instrument skipped for its zero
\* buy price
C12_Witness ==
    /\ SimDone
    /\ Len(ok_rows) = 1
    /\ \E k \in 1..Len(ng_rows) : ng_rows[k].reason = "past_is_zero"

----------------------------------------------------------------------------
(* The benchmark return of simulation_v3.py and the forward return of       *)
(* rsr_prot_pre.py, called on a matrix row and two dates / on two prices    *)

\* the index key "^N225"
N225 == Key("^", "N225", "")

BenchError(e) == [err |-> e, pct |-> FZero]

\* (sell_price - buy_price) / buy_price * 100.0: the float division raises
\* ZeroDivisionError on a zero buy price
bench_return(buy_price, sell_price) ==
    IF FIsZero(buy_price) THEN BenchError("ZeroDivisionError")
    ELSE [err |-> "none",
          pct |-> FMul(FDiv(FSub(sell_price, buy_price), buy_price), FInt(100))]

\* the prices of the row at or before the two dates
bench_prices(row, buy, sell) ==
    IF Len(SelectSeq(row, LAMBDA e : e.d <= buy)) = 0
    THEN BenchError("ValueError:no_buy_data")
    ELSE IF Len(SelectSeq(row, LAMBDA e : e.d <= sell)) = 0
    THEN BenchError("ValueError:no_sell_data")
    ELSE bench_return(
             FInt(Val(SelectSeq(row, LAMBDA e : e.d <= buy)
                          [Len(SelectSeq(row, LAMBDA e : e.d <= buy))].v)),
             FInt(Val(SelectSeq(row, LAMBDA e : e.d <= sell)
                          [Len(SelectSeq(row, LAMBDA e : e.d <= sell))].v)))

nikkei225_return_pct(frame, buy, sell) ==
    IF ~\E k \in 1..Len(frame.index) : frame.index[k] = N225
    THEN BenchError("ValueError:not_found")
    ELSE IF Len(dropna(loc(frame, N225))) = 0 THEN BenchError("ValueError:empty")
    ELSE IF sell < buy THEN BenchError("ValueError:sell_before_buy")
    ELSE bench_prices(dropna(loc(frame, N225)), buy, sell)

BenchFrames ==
    {[columns |-> Columns, index |-> <<k>>, data |-> <<cells>>] :
        k \in {N225, Key("", "7203", ".T")}, cells \in RowPool}

InitBenchmark ==
    /\ RunIdle
    /\ \/ \E frame \in BenchFrames, buy \in SimDays, sell \in SimDays :
            probe = [op |-> "nikkei225_return_pct", frame |-> frame, buy |-> buy,
                     sell |-> sell, done |-> FALSE]
       \/ \E p0 \in PriceOpts, p_future \in PriceOpts :
            probe = [op |-> "profit_pct", p0 |-> p0, p_future |-> p_future,
                     done |-> FALSE]

CallNikkei ==
    /\ probe.op = "nikkei225_return_pct"
    /\ ~probe.done
    /\ probe' = [probe EXCEPT !.done = TRUE] @@
                [r |-> nikkei225_return_pct(probe.frame, probe.buy, probe.sell)]
    /\ UNCHANGED runVars

CallProfitPct ==
    /\ probe.op = "profit_pct"
    /\ ~probe.done
    /\ probe' = [probe EXCEPT !.done = TRUE] @@
                [r |-> profit_pct(probe.p0, probe.p_future)]
    /\ UNCHANGED runVars

NextBenchmark == CallNikkei \/ CallProfitPct

SpecBenchmark == InitBenchmark /\ [][NextBenchmark]_vars

\* the price of the benchmark row at the buy date, None if there is none
BenchBuyPrice ==
    IF \E k \in 1..Len(probe.frame.index) : probe.frame.index[k] = N225
    THEN LatestPrice(loc(probe.frame, N225), probe.buy)
    ELSE None

\* C13: no division by a zero price is executed and none surfaces as a
\* numeric exception: the benchmark return and the forward return treat a
\* zero buy price like missing data and give an exclusion or an undefined
\* result
C13_NoDivisionByZero ==
    /\ (probe.op = "nikkei225_return_pct" /\ probe.done) =>
          /\ probe.r.err # "ZeroDivisionError"
          /\ BenchBuyPrice = Some(0) => probe.r.err # "none"
    /\ (probe.op = "profit_pct" /\ probe.done /\ probe.p0 = Some(0)) =>
          IsNone(probe.r)

----------------------------------------------------------------------------
(* Figures of a simulation report *)

\* C14: no figure of a simulation report is NaN: for every input list, one
\* with every instrument skipped included, the percentage of the totals line
\* is a finite number
C14_ReportFiguresFinite ==
    SimDone =>
        /\ ~FIsNaN(totals.pct)
        /\ ~FIsNaN(totals.basis) /\ ~FIsNaN(totals.value) /\ ~FIsNaN(totals.profit)
        /\ \A k \in 1..Len(ok_rows) :
              ~FIsNaN(ok_rows[k].diff) /\ ~FIsNaN(ok_rows[k].pct)

HasAllocation == script \in {"simulation_10man", "simulation_1kabu"}

\* C18: a row whose buy price and comparison price are the same recorded
\* entry has a price return of exactly 0 and, under every allocation policy,
\* a profit_pct of exactly 0
C18_SamePriceZeroReturn ==
    (script \in SimScripts /\ pc \in {"loop", "done"}) =>
        \A k \in 1..Len(ok_rows) :
            ok_rows[k].past_used = ok_rows[k].now_used =>
                /\ ok_rows[k].pct = FZero
                /\ HasAllocation => ok_rows[k].profit_pct = FZero

\* the summed basis: the invest amounts, or the buy prices
SummedBasis ==
    IF script = "simulation_10man" THEN FInt(INVEST_YEN * Len(ok_rows))
    ELSE sum_field(ok_rows, "past")

\* the summed current value of the included rows
SummedValue ==
    IF HasAllocation THEN sum_field(ok_rows, "value_now") ELSE sum_field(ok_rows, "now")

SummedProfit ==
    IF HasAllocation THEN sum_field(ok_rows, "profit") ELSE sum_field(ok_rows, "diff")

\* the totals other than the total profit: sums over the included rows, the
\* percentage from the total profit and the summed basis, the subset size
TotalsOverIncluded ==
    /\ totals.n = Len(ok_rows)
    /\ totals.basis = SummedBasis
    /\ totals.value = SummedValue
    /\ script = "simulation_10man" =>
          /\ totals.cost = sum_field(ok_rows, "cost")
          /\ totals.cash = sum_field(ok_rows, "cash")
    /\ script = "simulation_1kabu" => totals.basis = sum_field(ok_rows, "cost")
    /\ ~FIsZero(totals.basis) =>
          totals.pct = FMul(FDiv(totals.profit, totals.basis), FInt(100))

\* C19: the totals are sums over the included rows, the total profit equals
\* the sum of the rows' profits, the percentage is the total profit over the
\* summed basis times 100 and the subset size is the number of included rows
C19_TotalsOverIncludedRows ==
    SimDone =>
        /\ TotalsOverIncluded
        /\ totals.profit = SummedProfit

\* row k of the matrix is a row of the code whose latest entry at or before
\* the past date and whose latest entry of all are the prices and dates of r
VsLatestFrom(r, k) ==
    /\ df.index[k].code = r.ticker.code
    /\ RecordedUpTo(Row(df, k), Val(buy_date)) # {}
    /\ r.past_used = SetMax(RecordedUpTo(Row(df, k), Val(buy_date)))
    /\ r.past = FInt(Val(LatestPrice(Row(df, k), Val(buy_date))))
    /\ r.now_used = SetMax(RecordedUpTo(Row(df, k), Columns[Len(Columns)]))
    /\ r.now = FInt(Val(LatestPrice(Row(df, k), Columns[Len(Columns)])))

\* C20: in the vs-latest scripts the comparison price is the price at the
\* greatest recorded date of the whole series, whatever the past date, and
\* the buy price the price at the greatest recorded date <= the past date;
\* the date of the comparison price is never before the date of the buy price
C20_LatestNotBeforeBuy ==
    (script \in VsLatestScripts /\ pc \in {"loop", "done"}) =>
        \A j \in 1..Len(ok_rows) :
            /\ \E k \in 1..Len(df.index) : VsLatestFrom(ok_rows[j], k)
            /\ ok_rows[j].past_used <= ok_rows[j].now_used

\* bought at an entry before the past date, compared at a later entry that is
\* after the past date
C20_Witness ==
    /\ script \in VsLatestScripts
    /\ pc = "done"
    /\ \E j \in 1..Len(ok_rows) :
          /\ ok_rows[j].past_used < Val(buy_date)
          /\ Val(buy_date) < ok_rows[j].now_used

----------------------------------------------------------------------------
(* rsr_daily_1y.py: the score of one instrument at every session of its    *)
(* last year                                                               *)

\* pd.Series(values, index=sessions).dropna(): the entries with a value
series_dropna(sessions, values) ==
    LET kept == SelectSeq([k \in 1..Len(sessions) |-> k],
                          LAMBDA k : ~IsNone(values[k]))
    IN  [j \in 1..Len(kept) |-> [d |-> sessions[kept[j]], v |-> Val(values[kept[j]])]]

\* calc_daily_rsr_1y(df, ticker) for the row of the ticker; the window of an
\* empty series ends at NaT, which the calendar rejects
calc_daily_rsr_1y(row, c) ==
    LET closes == dropna(row)
    IN  IF Len(closes) = 0 THEN [err |-> "ValueError:NaT", s |-> <<>>]
        ELSE LET end_day   == SetMax({closes[k].d : k \in 1..Len(closes)})
                 start_day == SubYears(end_day, 1)
                 sessions  == sessions_in_range(c, start_day, end_day)
                 values    == [k \in 1..Len(sessions) |-> rsr_at_day(closes, sessions[k])]
             IN  [err |-> "none", s |-> series_dropna(sessions, values)]

\* the rows of the pool cut after their first n columns
RollSeries == { SubSeq(row, 1, n) : row \in SeriesPool, n \in 1..Len(Columns) }

\* the sessions of the Tokyo calendar among the query days and the base days
RollDays == { s \in QueryDays \cup BaseDays : IsSession(XTKS, s) }

InitRolling ==
    /\ RunIdle
    /\ \/ \E row \in RollSeries, c \in CalPool :
            probe = [op |-> "calc_daily_rsr_1y", row |-> row, c |-> c,
                     done |-> FALSE, ret |-> [err |-> "none", s |-> <<>>]]
       \/ \E row \in RollSeries, s \in RollDays :
            probe = [op |-> "rsr_at_day", row |-> row, s |-> s, done |-> FALSE,
                     roll |-> None, rank |-> [err |-> "none", dn |-> None]]

CallCalcDaily ==
    /\ probe.op = "calc_daily_rsr_1y" /\ ~probe.done
    /\ probe' = [probe EXCEPT !.done = TRUE,
                   !.ret = calc_daily_rsr_1y(probe.row, probe.c)]
    /\ UNCHANGED runVars

\* the score of the ranking scripts for one instrument with base day s:
\* rsr_old.main from the calendar targets to safe_detect_number
ranking_score_at(row, s) ==
    LET a == ranking_anchors(XTKS, s)
    IN  IF a.err # "none" THEN [err |-> a.err, dn |-> None]
        ELSE [err |-> "none", dn |-> score_ticker(dropna(row), a).dn]

\* the same series and day given to rsr_at_day and to the ranking scorer
CallRsrAtDay ==
    /\ probe.op = "rsr_at_day" /\ ~probe.done
    /\ probe' = [probe EXCEPT !.done = TRUE,
                   !.roll = rsr_at_day(dropna(probe.row), probe.s),
                   !.rank = ranking_score_at(probe.row, probe.s)]
    /\ UNCHANGED runVars

NextRolling == CallCalcDaily \/ CallRsrAtDay

SpecRolling == InitRolling /\ [][NextRolling]_vars

\* the latest recorded date of a series that has one
LatestRecorded(row) == SetMax(RecordedUpTo(row, Columns[Len(Columns)]))

\* the sessions of the last calendar year of the series
YearSessions(row, c) ==
    { s \in SubYears(LatestRecorded(row), 1)..LatestRecorded(row) : IsSession(c, s) }

\* the score of the five prices resolved at s, s - 1 year and s - 3, 6 and 9
\* months: none when a price is missing or a historical price is zero
ScoreAt(closes, s) ==
    LET p == rsr_at_day_prices(closes, s)
    IN  safe_detect_number(p[1], p[2], p[3], p[4], p[5])

\* C21: for a series with a latest recorded date end, calc_daily_rsr_1y
\* returns, in increasing session order, exactly the pairs (s, score at s)
\* of the sessions s in [end - 1 year, end] at which the score is defined;
\* a session without a score is absent from the result
C21_RollingSeries ==
    (/\ probe.op = "calc_daily_rsr_1y" /\ probe.done
     /\ RecordedUpTo(probe.row, Columns[Len(Columns)]) # {}) =>
        LET out_s  == probe.ret.s
            closes == dropna(probe.row)
        IN  /\ probe.ret.err = "none"
            /\ \A j \in 1..(Len(out_s) - 1) : out_s[j].d < out_s[j + 1].d
            /\ \A j \in 1..Len(out_s) :
                  /\ out_s[j].d \in YearSessions(probe.row, probe.c)
                  /\ Some(out_s[j].v) = ScoreAt(closes, out_s[j].d)
            /\ \A s \in YearSessions(probe.row, probe.c) :
                  ~IsNone(ScoreAt(closes, s))
                      => \E j \in 1..Len(out_s) : out_s[j].d = s

\* C23: at every session s the rolling scorer rsr_at_day and the ranking
\* scorer with base day s agree on every series: both give no score, or both
\* give the same score
C23_RollingEqualsRanking ==
    (probe.op = "rsr_at_day" /\ probe.done) =>
        /\ probe.rank.err = "none"
        /\ probe.roll = probe.rank.dn

----------------------------------------------------------------------------
(* simulation_v3.py: the orchestrator runs rsr_old.py with a date, rebuilds *)
(* the name of the ranked file from the status line and hands it to         *)
(* simulation_onebuy_in_v3.py.  The run variables are those of the rsr_old  *)
(* child process; probe holds the orchestrator: whether the matrix file can *)
(* be read (loads), its position (pc), the return code it saw, the file     *)
(* name it rebuilt and what the simulation stage found under that name.     *)

MaxPipelineRows == 2

\* "top<n>_tse_<YYYYMMDD>.txt" as its two variable parts, the date as the
\* number its eight digits spell
file_name(n, civil) == [n |-> n, ymd |-> civil.y * 10000 + civil.m * 100 + civil.d]

\* the name under which rsr_old saved the list: out_path of main
written_name(path) == file_name(path.n, strftime_ymd(path.ymd))

\* f_name of simulation_v3.py from the parts of the status line
rebuilt_name(status) == file_name(status.n, status.date)

InitPipeline ==
    /\ script = "rsr_old"
    /\ cal \in CalPool
    /\ sim_date \in SimDates \ {None}
    /\ top_n \in TopNs
    /\ pc = "start"
    /\ base_day = None
    /\ sess = NoSess
    /\ i = 0
    /\ results = <<>>
    /\ skipped = <<>>
    /\ out = NoOut
    /\ err = "none"
    /\ SimIdle
    /\ \E loads \in BOOLEAN :
         /\ probe = [op |-> "simulation_v3", loads |-> loads, pc |-> "rsr_old",
                     returncode |-> None, f_name |-> None, top |-> None]
         /\ IF loads
            THEN \E n \in 0..MaxPipelineRows : \E data \in [1..n -> RowPool] :
                   df = [columns |-> Columns, index |-> SubSeq(Tickers, 2, n + 1),
                         data |-> data]
            ELSE df = EmptyDf

\* rsr_old.main: load_close_wide raises, the except branch prints the failure
\* and calls sys.exit(1)
LoadFailure ==
    /\ pc = "start"
    /\ ~probe.loads
    /\ Abort("SystemExit:1")

\* rsr_old.main continuing after the matrix was read
LoadedResolveBase ==
    /\ probe.loads
    /\ ResolveBase

\* the exit status of the child: 0 after the last line of main, 1 after
\* sys.exit(1) or an exception leaving main
returncode_of(child_pc) == IF child_pc = "done" THEN 0 ELSE 1

\* simulation_v3.py carrying on after a failed ranking stage
RankingFailed_ignored ==
    /\ probe.pc = "rsr_old"
    /\ pc = "aborted"
    /\ probe' = [probe EXCEPT !.pc = "simulation",
                              !.returncode = Some(returncode_of(pc))]
    /\ UNCHANGED runVars

\* simulation_v3.py: result.returncode != 0 raises RuntimeError
RankingFailed ==
    /\ probe.pc = "rsr_old"
    /\ pc = "aborted"
    /\ probe' = [probe EXCEPT !.pc = "RuntimeError",
                              !.returncode = Some(returncode_of(pc))]
    /\ UNCHANGED runVars

\* simulation_v3.py: return code 0, the status line is split at the comma
\* and the simulation stage is started with the rebuilt file name
StartSimulation ==
    /\ probe.pc = "rsr_old"
    /\ pc = "done"
    /\ probe' = [probe EXCEPT !.pc = "simulation",
                              !.returncode = Some(returncode_of(pc)),
                              !.f_name = Some(rebuilt_name(Val(out.status)))]
    /\ UNCHANGED runVars

\* simulation_onebuy_in_v3.main reading --top: the text of the file of that
\* name, FileNotFoundError when the ranking stage wrote no file of that name
ReadTop ==
    /\ probe.pc = "simulation"
    /\ probe' = [probe EXCEPT !.pc = "benchmark",
                   !.top = IF probe.f_name = Some(written_name(Val(out.path)))
                           THEN Some([err |-> "none", text |-> out.text])
                           ELSE Some([err |-> "FileNotFoundError", text |-> <<>>])]
    /\ UNCHANGED runVars

NextPipeline ==
    \/ LoadFailure
    \/ LoadedResolveBase
    \/ ResolveAnchors
    \/ ScoreTicker
    \/ Emit
    \/ RankingFailed
    \/ StartSimulation
    \/ ReadTop

SpecPipeline == InitPipeline /\ [][NextPipeline]_vars

\* the orchestrator has started the simulation stage
SimulationStarted == probe.op = "simulation_v3" /\ probe.pc \in {"simulation", "benchmark"}

\* C22: the file name the orchestrator rebuilds from the status line and
\* hands to the simulation stage is the name under which rsr_old saved the
\* top-N list, whatever the number of scored instruments
C22_HandedFileIsWrittenFile ==
    SimulationStarted =>
        /\ ~IsNone(out.path)
        /\ probe.f_name = Some(written_name(Val(out.path)))

\* scheduling: a started rsr_old process takes its first step, and
\* subprocess.run returns to the orchestrator once the child has exited; no
\* progress is assumed of the other steps
SpecPipelineLive ==
    SpecPipeline /\ WF_vars(LoadFailure) /\ WF_vars(RankingFailed)

\* a ranking stage that could not read the matrix has stopped: exit status
\* 1, no base day, no score, no ranked file, no status line
StoppedAtLoad ==
    /\ pc = "aborted"
    /\ err = "SystemExit:1"
    /\ returncode_of(pc) # 0
    /\ base_day = None
    /\ results = <<>>
    /\ out = NoOut

\* C27: when the price matrix cannot be loaded the ranking stage stops at its
\* first step with a non-zero exit status, no ranked file and no status
\* line, and the orchestrator then stops with RuntimeError and never starts
\* the simulation stage; the simulation stage is started only after a
\* ranking stage that exited with status 0
C27_LoadFailureStopsPipeline ==
    /\ [](probe.op = "simulation_v3" =>
            /\ (~probe.loads /\ pc # "start") => StoppedAtLoad
            /\ ~probe.loads => ~SimulationStarted
            /\ SimulationStarted => (pc = "done" /\ probe.returncode = Some(0)))
    /\ (probe.op = "simulation_v3" /\ ~probe.loads) ~> (probe.pc = "RuntimeError")

\* the orchestrator stopped after a ranking stage that could not read the matrix
C27_Witness ==
    /\ probe.op = "simulation_v3"
    /\ ~probe.loads
    /\ probe.pc = "RuntimeError"
    /\ probe.returncode = Some(1)
    /\ StoppedAtLoad

----------------------------------------------------------------------------
(* The reference sessions of a ranking run, from a base day that is a date *)
(* column of the matrix                                                    *)

AnchorFns == {"ranking_anchors", "pre_anchors"}

\* dates a matrix may have as a column
AnchorBases == QueryDays \cup BaseDays \cup {Columns[k] : k \in 1..Len(Columns)}

InitAnchors ==
    /\ RunIdle
    /\ \E fn \in AnchorFns, c \in CalPool, base \in AnchorBases :
         probe = [op |-> "anchors", fn |-> fn, c |-> c, base |-> base,
                  done |-> FALSE, ret |-> [err |-> "none"] @@ NoSess]

CallAnchors ==
    /\ probe.op = "anchors" /\ ~probe.done
    /\ probe' = [probe EXCEPT !.done = TRUE,
                   !.ret = IF probe.fn = "ranking_anchors"
                           THEN ranking_anchors(probe.c, probe.base)
                           ELSE pre_anchors(probe.c, probe.base)]
    /\ UNCHANGED runVars

NextAnchors == CallAnchors

SpecAnchors == InitAnchors /\ [][NextAnchors]_vars

\* the latest session of the calendar on or before the day, if there is one
IsLatestSessionOnOrBefore(c, s, day) ==
    /\ IsSession(c, s)
    /\ s <= day
    /\ \A x \in (s + 1)..day : ~IsSession(c, x)

\* C24: the five reference sessions are the latest sessions on or before
\* the base day and the base day minus 3, 6 and 9 months and 1 year; each is
\* <= its calendar target and s1y <= sq3 <= sq2 <= sq1 <= s0 <= base day
C24_ReferenceSessions ==
    (probe.op = "anchors" /\ probe.done /\ probe.ret.err = "none") =>
        LET a == probe.ret
        IN  /\ IsLatestSessionOnOrBefore(probe.c, a.s0, probe.base)
            /\ IsLatestSessionOnOrBefore(probe.c, a.sq1, AddMonths(probe.base, -3))
            /\ IsLatestSessionOnOrBefore(probe.c, a.sq2, AddMonths(probe.base, -6))
            /\ IsLatestSessionOnOrBefore(probe.c, a.sq3, AddMonths(probe.base, -9))
            /\ IsLatestSessionOnOrBefore(probe.c, a.s1y, SubYears(probe.base, 1))
            /\ a.s1y <= a.sq3 /\ a.sq3 <= a.sq2 /\ a.sq2 <= a.sq1
            /\ a.sq1 <= a.s0 /\ a.s0 <= probe.base

----------------------------------------------------------------------------
(* The base day of a ranking run given a date *)

\* the matrix dates at or before day on which some instrument has a price
DatesWithDataUpTo(frame, day) ==
    { frame.columns[j] : j \in { n \in 1..Len(frame.columns) :
          /\ frame.columns[n] <= day
          /\ \E k \in 1..Len(frame.index) : ~IsNone(frame.data[k][n]) } }

\* C25: align_to_csv_available_date(df, day) is the most recent matrix date
\* on or before day on which some instrument has a price; a column for day
\* without any price is passed over for the nearest earlier date with data
C25_AlignedDateHasData ==
    (/\ script \in {"rsr_old", "RSR_dake"}
     /\ ~IsNone(sim_date)
     /\ ~IsNone(base_day)) =>
        LET day == prev_or_same_session(cal, Val(sim_date)).s
        IN  /\ DatesWithDataUpTo(df, day) # {}
            /\ Val(base_day) = SetMax(DatesWithDataUpTo(df, day))

----------------------------------------------------------------------------
(* Resolution of a code to a matrix row *)

\* a matrix key matching the code by its form
StructuralMatch(k, code) ==
    IF script = "simulation_onebuy_in_v3"
    THEN EndsWithCode(k, code)
    ELSE EndsWithCodeT(k, code) \/ k = Key("TSE:", code, "") \/ EndsWithCode(k, code)

\* the first candidate form that is a row of the matrix, otherwise the first
\* row in matrix order that matches by its form, otherwise None
FirstMatch(frame, code) ==
    LET found    == SelectSeq(candidates(code),
                              LAMBDA k : \E j \in 1..Len(frame.index) : frame.index[j] = k)
        matching == SelectSeq(frame.index, LAMBDA k : StructuralMatch(k, code))
    IN  IF Len(found) > 0 THEN Some(found[1])
        ELSE IF Len(matching) > 0 THEN Some(matching[1])
        ELSE None

\* the rows a run of the script can resolve the code to
Resolutions(frame, code) ==
    IF script = "simulation_onebuy_in_v3"
    THEN {onebuy_resolve_row_key(frame, code)}
    ELSE resolve_row_key(frame, code)

\* C26: for every code a simulation has dealt with, resolve_row_key has one
\* possible result on the matrix of the run, the same in every run: the first
\* of <code>.T, TSE:<code>, <code> that is a row, otherwise the first row in
\* matrix order matching by its form, and None only when no row matches
C26_DeterministicResolution ==
    (script \in SimScripts /\ pc \in {"loop", "done"}) =>
        \A p \in Processed :
            Resolutions(df, input_codes[p]) = {FirstMatch(df, input_codes[p])}

----------------------------------------------------------------------------
(* Capital of a simulate_10k result *)

\* a == b for floats
FEq(a, b) == FLeq(a, b) /\ FLeq(b, a)

\* C28: in every simulate_10k result for a positive buy price, cost + idle
\* cash = invest amount and idle cash >= 0; in whole-unit mode idle cash <
\* buy price, in round-lot mode idle cash < 100 * buy price; a result with
\* no share bought has idle cash = invest amount and profit = 0
C28_CapitalConserved ==
    (/\ AllocDone
     /\ probe.r.err = "none"
     /\ probe.mode \in Modes
     /\ ~IsNone(probe.past) /\ ~IsNone(probe.now)
     /\ FLess(FZero, Val(probe.past))) =>
        /\ FEq(FAdd(probe.r.cost, probe.r.cash), FInt(probe.invest_yen))
        /\ FLeq(FZero, probe.r.cash)
        /\ probe.mode = "1share" => FLess(probe.r.cash, Val(probe.past))
        /\ probe.mode = "lot100" =>
              FLess(probe.r.cash, FMul(FInt(100), Val(probe.past)))
        /\ FIsZero(probe.r.shares) =>
              /\ FEq(probe.r.cash, FInt(probe.invest_yen))
              /\ FIsZero(probe.r.profit)

----------------------------------------------------------------------------
(* Point-in-time simulation: simulation_onebuy_in_v3.py and the benchmark  *)
(* return of simulation_v3.py, both given a buy date and a sell date       *)

InitPointInTime ==
    \/ InitSim /\ script = "simulation_onebuy_in_v3"
    \/ InitBenchmark /\ probe.op = "nikkei225_return_pct"

NextPointInTime == SimBegin \/ SimRowOneBuy \/ SimReport \/ CallNikkei

SpecPointInTime == InitPointInTime /\ [][NextPointInTime]_vars

\* the greatest recorded date of the row at or before day
RecordedDate(row, day) == SetMax(RecordedUpTo(row, day))

\* row k of the matrix is a row of the code, and r holds its prices at the
\* greatest recorded dates at or before the buy date and the sell date
OneBuyFrom(r, k) ==
    /\ df.index[k].code = r.ticker.code
    /\ RecordedUpTo(Row(df, k), Val(buy_date)) # {}
    /\ r.past_used = RecordedDate(Row(df, k), Val(buy_date))
    /\ r.now_used = RecordedDate(Row(df, k), Val(sell_date))
    /\ r.past = FInt(Val(LatestPrice(Row(df, k), Val(buy_date))))
    /\ r.now = FInt(Val(LatestPrice(Row(df, k), Val(sell_date))))

\* the benchmark return of the prices recorded at the two dates
BenchReturnAt(row, b, s) ==
    bench_return(FInt(Val(LatestPrice(row, b))), FInt(Val(LatestPrice(row, s))))

\* C29: a sell date before the buy date is rejected before any row is
\* computed, by simulation_onebuy_in_v3 and by nikkei225_return_pct; in
\* every included row, and in the benchmark return, the buy price is the
\* one recorded at the greatest recorded date <= the buy date, the sell
\* price the one at the greatest recorded date <= the sell date, and the
\* first of these dates is <= the second
C29_BuyNotAfterSell ==
    /\ (script = "simulation_onebuy_in_v3" /\ pc # "start") =>
          /\ Val(sell_date) < Val(buy_date) =>
                /\ pc = "aborted"
                /\ err = "SystemExit:sell_before_buy"
                /\ ok_rows = <<>> /\ ng_rows = <<>>
          /\ \A j \in 1..Len(ok_rows) :
                /\ \E k \in 1..Len(df.index) : OneBuyFrom(ok_rows[j], k)
                /\ ok_rows[j].past_used <= ok_rows[j].now_used
                /\ ok_rows[j].past_used <= Val(buy_date)
                /\ ok_rows[j].now_used <= Val(sell_date)
    /\ (probe.op = "nikkei225_return_pct" /\ probe.done) =>
          /\ probe.sell < probe.buy => probe.r.err # "none"
          /\ probe.r.err = "none" =>
                LET row == loc(probe.frame, N225)
                IN  /\ RecordedUpTo(row, probe.buy) # {}
                    /\ RecordedDate(row, probe.buy) <= RecordedDate(row, probe.sell)
                    /\ RecordedDate(row, probe.buy) <= probe.buy
                    /\ RecordedDate(row, probe.sell) <= probe.sell
                    /\ probe.r = BenchReturnAt(row, probe.buy, probe.sell)

\* a finished simulation with a row bought at an entry before the buy date
\* and sold at a later entry
C29_Witness ==
    /\ script = "simulation_onebuy_in_v3"
    /\ pc = "done"
    /\ Val(buy_date) < Val(sell_date)
    /\ \E j \in 1..Len(ok_rows) :
          /\ ok_rows[j].past_used < Val(buy_date)
          /\ ok_rows[j].past_used < ok_rows[j].now_used
====
